---- MODULE Spec2Model ----
(***************************************************************************)
(* A model of the PredictGenie analysis pipeline: the orchestration in     *)
(* App.tsx (handleAnalysis), the batch fan-out/fan-in of geminiService.ts  *)
(* (analyzeBatchProducts), the prediction client (predictPrice,            *)
(* predictBatch), the payload mapper of mlMapper.ts, the input form (the   *)
(* CSV upload with parseCsv and handleFileChange, the URL form with its    *)
(* competitor list and its debounced suggestions) and the exporters        *)
(* (escapeCsvField, exportToCsv, exportCompetitorsToCsv,                   *)
(* exportPriceHistoryToCsv, exportToJson).                                 *)
(*                                                                         *)
(* Representation.  A JavaScript string is a sequence of one-character     *)
(* strings.  A JavaScript number is kept in tenths (450.7 is 4507), with   *)
(* NaN and Infinity as separate values.  A JavaScript value of unknown     *)
(* type is a record [t, n, s, a]: its type tag, its number (tenths; 0 or 1 *)
(* for a boolean), its string and its array elements.                      *)
(***************************************************************************)
EXTENDS Integers, Sequences, FiniteSets, TLC

\* ---------------------------------------------------------------- bounds

\* The number of distinct CsvProducts a batch is drawn from; a batch holds
\* between 0 and NumProducts items.
NumProducts == 3

\* The longest competitor list of an analysis handed to the payload mapper.
MaxCompetitors == 2

\* The most data lines (blank ones included) of an uploaded file.
MaxRows == 2

\* The most analyses of a result handed to an exporter.
MaxExported == 2

\* The longest string escapeCsvField is called on, its characters drawn from
\* FieldChars.
MaxFieldLen == 3

\* The longest string parseStrictNumber is called on, its characters drawn
\* from NumeralChars.
MaxNumeralLen == 3

\* The most words of a name inferCategory is called on.
MaxWords == 2

\* ------------------------------------------------------- JavaScript values

Num(n)  == [t |-> "num",   n |-> n, s |-> <<>>, a |-> <<>>]
Str(s)  == [t |-> "str",   n |-> 0, s |-> s,    a |-> <<>>]
Bool(b) == [t |-> "bool",  n |-> IF b THEN 1 ELSE 0, s |-> <<>>, a |-> <<>>]
Arr(a)  == [t |-> "arr",   n |-> 0, s |-> <<>>, a |-> a]
NaN     == [t |-> "nan",   n |-> 0, s |-> <<>>, a |-> <<>>]
Inf     == [t |-> "inf",   n |-> 0, s |-> <<>>, a |-> <<>>]
Null    == [t |-> "null",  n |-> 0, s |-> <<>>, a |-> <<>>]
Undef   == [t |-> "undef", n |-> 0, s |-> <<>>, a |-> <<>>]

\* Number.isFinite(v): true of a finite number only, with no coercion.
NumberIsFinite(v) == v.t = "num"

Digit == {"0", "1", "2", "3", "4", "5", "6", "7", "8", "9"}

DigitVal(c) ==
  CASE c = "0" -> 0 [] c = "1" -> 1 [] c = "2" -> 2 [] c = "3" -> 3
    [] c = "4" -> 4 [] c = "5" -> 5 [] c = "6" -> 6 [] c = "7" -> 7
    [] c = "8" -> 8 [] c = "9" -> 9

WhiteSpace == {" ", "\t", "\n", "\r"}

IsDigits(s) == Len(s) > 0 /\ \A i \in 1..Len(s) : s[i] \in Digit

RECURSIVE DigitsVal(_)
DigitsVal(s) ==
  IF s = <<>> THEN 0
  ELSE DigitsVal(SubSeq(s, 1, Len(s) - 1)) * 10 + DigitVal(s[Len(s)])

RECURSIVE Pow10(_)
Pow10(e) == IF e <= 0 THEN 1 ELSE 10 * Pow10(e - 1)

\* String.prototype.trim
RECURSIVE TrimLeft(_)
TrimLeft(s) ==
  IF s # <<>> /\ Head(s) \in WhiteSpace THEN TrimLeft(Tail(s)) ELSE s

RECURSIVE TrimRight(_)
TrimRight(s) ==
  IF s # <<>> /\ s[Len(s)] \in WhiteSpace
  THEN TrimRight(SubSeq(s, 1, Len(s) - 1)) ELSE s

Trim(s) == TrimRight(TrimLeft(s))

\* String.prototype.includes
Includes(s, kw) ==
  \E i \in 1..(Len(s) - Len(kw) + 1) : SubSeq(s, i, i + Len(kw) - 1) = kw

Upper == <<"A", "B", "C", "D", "E", "F", "G", "H", "I", "J", "K", "L", "M",
           "N", "O", "P", "Q", "R", "S", "T", "U", "V", "W", "X", "Y", "Z">>
Lower == <<"a", "b", "c", "d", "e", "f", "g", "h", "i", "j", "k", "l", "m",
           "n", "o", "p", "q", "r", "s", "t", "u", "v", "w", "x", "y", "z">>

LowerChar(c) ==
  IF \E i \in 1..26 : Upper[i] = c
  THEN Lower[CHOOSE i \in 1..26 : Upper[i] = c]
  ELSE c

\* String.prototype.toLowerCase
ToLowerCase(s) == [i \in 1..Len(s) |-> LowerChar(s[i])]

\* Array.prototype.join
RECURSIVE Join(_, _)
Join(parts, sep) ==
  IF parts = <<>> THEN <<>>
  ELSE IF Len(parts) = 1 THEN parts[1]
  ELSE parts[1] \o sep \o Join(Tail(parts), sep)

\* The tenths of a fraction's digits; exact when only the first is non-zero.
FracTenths(f) == IF f = <<>> THEN 0 ELSE DigitVal(f[1])

\* The position of the first c in s, or 0.
IndexOf(s, c) ==
  IF \E i \in 1..Len(s) : s[i] = c
  THEN CHOOSE i \in 1..Len(s) : s[i] = c /\ \A j \in 1..(i - 1) : s[j] # c
  ELSE 0

\* ---------------------------------------------------------------- mlMapper

\* /^-?\d+(\.\d+)?$/.test(s)
StrictPattern(s) ==
  LET u == IF s # <<>> /\ Head(s) = "-" THEN Tail(s) ELSE s
      k == IndexOf(u, ".")
  IN  IF k = 0 THEN IsDigits(u)
      ELSE IsDigits(SubSeq(u, 1, k - 1)) /\ IsDigits(SubSeq(u, k + 1, Len(u)))

\* Number(s) of a string that matches StrictPattern, in tenths.
StrictValue(s) ==
  LET neg == Head(s) = "-"
      u   == IF neg THEN Tail(s) ELSE s
      k   == IndexOf(u, ".")
      ip  == IF k = 0 THEN u ELSE SubSeq(u, 1, k - 1)
      fp  == IF k = 0 THEN <<>> ELSE SubSeq(u, k + 1, Len(u))
      m   == DigitsVal(ip) * 10 + FracTenths(fp)
  IN  IF neg THEN 0 - m ELSE m

\* A variant of parseStrictNumber: 0 where there is no number.
ParseStrictOrZero(value) ==
  IF value.t = "num" THEN value
  ELSE IF value.t = "str" /\ StrictPattern(Trim(value.s))
       THEN Num(StrictValue(Trim(value.s)))
       ELSE Num(0)

\* parseStrictNumber(value): a finite number (as Num) or Null.
parseStrictNumber(value) ==
  IF value.t = "num" THEN value
  ELSE IF value.t = "str" /\ StrictPattern(Trim(value.s))
       THEN Num(StrictValue(Trim(value.s)))
       ELSE Null

\* A variant of inferCategory: electronics is looked for first.
InferCategoryElectronicsFirst(name) ==
  LET n == ToLowerCase(IF name.t = "str" THEN name.s ELSE <<>>)
  IN  IF Includes(n, <<"p", "h", "o", "n", "e">>)
         \/ Includes(n, <<"m", "o", "b", "i", "l", "e">>)
      THEN "electronics"
      ELSE IF Includes(n, <<"s", "h", "o", "e">>)
              \/ Includes(n, <<"s", "n", "e", "a", "k", "e", "r">>)
      THEN "footwear"
      ELSE IF Includes(n, <<"s", "h", "i", "r", "t">>)
              \/ Includes(n, <<"t", "-", "s", "h", "i", "r", "t">>)
      THEN "apparel"
      ELSE "general"

\* inferCategory(name); name is a JavaScript value, (name || "") a string.
inferCategory(name) ==
  LET n == ToLowerCase(IF name.t = "str" THEN name.s ELSE <<>>)
  IN  IF Includes(n, <<"s", "h", "o", "e">>)
         \/ Includes(n, <<"s", "n", "e", "a", "k", "e", "r">>)
      THEN "footwear"
      ELSE IF Includes(n, <<"p", "h", "o", "n", "e">>)
              \/ Includes(n, <<"m", "o", "b", "i", "l", "e">>)
      THEN "electronics"
      ELSE IF Includes(n, <<"s", "h", "i", "r", "t">>)
              \/ Includes(n, <<"t", "-", "s", "h", "i", "r", "t">>)
      THEN "apparel"
      ELSE "general"

\* x ?? y
Coalesce(x, y) == IF x.t \in {"null", "undef"} THEN y ELSE x

\* .map(c => parseStrictNumber(c.price)).filter(v => v !== null)
RECURSIVE ParsedPrices(_)
ParsedPrices(cs) ==
  IF cs = <<>> THEN <<>>
  ELSE LET v == parseStrictNumber(Head(cs).price)
       IN  (IF v = Null THEN <<>> ELSE <<v.n>>) \o ParsedPrices(Tail(cs))

\* A variant of analysisToPredictPayload: no fallback for an empty list.
PayloadWithoutFallback(a) ==
  [current_price     |->
     Coalesce(parseStrictNumber(a.userProduct.currentPrice), Num(0)).n,
   competitor_prices |-> ParsedPrices(Coalesce(a.competitors, Arr(<<>>)).a),
   category          |-> inferCategory(a.userProduct.productName)]

\* analysisToPredictPayload(a); the payload's numbers are in tenths.
analysisToPredictPayload(a) ==
  LET competitors == ParsedPrices(Coalesce(a.competitors, Arr(<<>>)).a)
      userPrice   == parseStrictNumber(a.userProduct.currentPrice)
  IN  [current_price     |-> Coalesce(userPrice, Num(0)).n,
       competitor_prices |-> IF Len(competitors) > 0
                             THEN competitors
                             ELSE <<Coalesce(userPrice, Num(0)).n>>,
       category          |-> inferCategory(a.userProduct.productName)]

\* analysesToPredictPayloads(analyses)
analysesToPredictPayloads(analyses) ==
  [i \in 1..Len(analyses) |-> analysisToPredictPayload(analyses[i])]

\* ------------------------------------------------------ Number(value)

\* [sign] (digits [. [digits]] | . digits) [(e|E) [sign] digits], the
\* decimal literals Number() reads from a trimmed string.
DecimalPattern(s) ==
  LET u  == IF s # <<>> /\ Head(s) \in {"-", "+"} THEN Tail(s) ELSE s
      e  == IF IndexOf(u, "e") # 0 THEN IndexOf(u, "e") ELSE IndexOf(u, "E")
      mp == IF e = 0 THEN u ELSE SubSeq(u, 1, e - 1)
      ep == IF e = 0 THEN <<>> ELSE SubSeq(u, e + 1, Len(u))
      eu == IF ep # <<>> /\ Head(ep) \in {"-", "+"} THEN Tail(ep) ELSE ep
      k  == IndexOf(mp, ".")
      ip == IF k = 0 THEN mp ELSE SubSeq(mp, 1, k - 1)
      fp == IF k = 0 THEN <<>> ELSE SubSeq(mp, k + 1, Len(mp))
  IN  /\ ip = <<>> \/ IsDigits(ip)
      /\ fp = <<>> \/ IsDigits(fp)
      /\ ip # <<>> \/ fp # <<>>
      /\ e = 0 \/ IsDigits(eu)

\* The value of a string that matches DecimalPattern, in tenths.
DecimalValue(s) ==
  LET neg == s # <<>> /\ Head(s) = "-"
      u   == IF s # <<>> /\ Head(s) \in {"-", "+"} THEN Tail(s) ELSE s
      e   == IF IndexOf(u, "e") # 0 THEN IndexOf(u, "e") ELSE IndexOf(u, "E")
      mp  == IF e = 0 THEN u ELSE SubSeq(u, 1, e - 1)
      ep  == IF e = 0 THEN <<>> ELSE SubSeq(u, e + 1, Len(u))
      en  == ep # <<>> /\ Head(ep) = "-"
      eu  == IF ep # <<>> /\ Head(ep) \in {"-", "+"} THEN Tail(ep) ELSE ep
      k   == IndexOf(mp, ".")
      ip  == IF k = 0 THEN mp ELSE SubSeq(mp, 1, k - 1)
      fp  == IF k = 0 THEN <<>> ELSE SubSeq(mp, k + 1, Len(mp))
      m   == DigitsVal(ip) * 10 + FracTenths(fp)
      v   == IF en THEN m \div Pow10(DigitsVal(eu)) ELSE m * Pow10(DigitsVal(eu))
  IN  IF neg THEN 0 - v ELSE v

Infinity == <<"I", "n", "f", "i", "n", "i", "t", "y">>

\* Number(s) of a string.
StringToNumber(s) ==
  LET t == Trim(s)
      u == IF t # <<>> /\ Head(t) \in {"-", "+"} THEN Tail(t) ELSE t
  IN  IF t = <<>> THEN Num(0)
      ELSE IF u = Infinity THEN Inf
      ELSE IF DecimalPattern(t) THEN Num(DecimalValue(t))
      ELSE NaN

\* Number(v) of an element of an array, through its string form.
ElementToNumber(v) ==
  CASE v.t = "num"  -> v
    [] v.t = "nan"  -> NaN
    [] v.t = "inf"  -> Inf
    [] v.t = "str"  -> StringToNumber(v.s)
    [] v.t = "bool" -> NaN
    [] OTHER        -> Num(0)

\* Number(v)
ToNumber(v) ==
  CASE v.t = "num"   -> v
    [] v.t = "nan"   -> NaN
    [] v.t = "inf"   -> Inf
    [] v.t = "str"   -> StringToNumber(v.s)
    [] v.t = "null"  -> Num(0)
    [] v.t = "undef" -> NaN
    [] v.t = "bool"  -> Num(v.n * 10)
    [] v.t = "arr"   -> IF v.a = <<>> THEN Num(0)
                        ELSE IF Len(v.a) = 1 THEN ElementToNumber(v.a[1])
                        ELSE NaN

\* A variant of MathRound: Math.floor.
MathFloor(n) == (n \div 10) * 10

\* Math.round(x): the integer nearest x, a tie going up; n and the result
\* are in tenths.
MathRound(n) == ((n + 5) \div 10) * 10

\* ------------------------------------------------------------- the data

\* The product names and prices (tenths) the CsvProducts are built from;
\* names are non-empty and prices non-negative, as parseCsv leaves them.
ProductNames ==
  << <<"S", "h", "o", "e">>, <<"M", "u", "g">>, <<"P", "h", "o", "n", "e">>,
     <<"T", "-", "S", "h", "i", "r", "t">>, <<"C", "a", "p">> >>

ProductPrices == <<5000, 125, 99990, 4000, 0>>

\* The k-th CsvProduct; the even ones carry a userProductUrl.
CsvProduct(k) ==
  [productName    |-> ProductNames[k],
   currentPrice   |-> ProductPrices[k],
   userProductUrl |-> IF k % 2 = 0 THEN <<"u", "/", "p">> ELSE <<>>,
   competitorUrls |-> <<>>]

Products == {CsvProduct(k) : k \in 1..NumProducts}

\* The batches handed to handleAnalysis: every sequence of distinct products,
\* the empty one included (analyzeBatchProducts accepts it; the CSV form
\* itself submits non-empty batches only).
Batches ==
  {b \in UNION {[1..n -> Products] : n \in 0..NumProducts} :
     \A i, j \in 1..Len(b) : i # j => b[i] # b[j]}

\* What the AI collaborator reads and finds for the k-th product: the price
\* fields as they come out of JSON.parse, typed or not.
FoundPrice ==
  << Num(5000), Str(<<"1", "2", ".", "5">>), Num(99990),
     Str(<<"4", ",", "0", "0", "0">>), Num(0) >>

FoundCompetitors ==
  << Arr(<< [price |-> Num(4500)], [price |-> Str(<<"a", "b", "c">>)] >>),
     Undef,
     Arr(<<>>),
     Arr(<< [price |-> Str(<<" ", "3", "9", ".", "5", " ">>)] >>),
     Null >>

AiSuggested == <<4995, 130, 95000, 3990, 15>>

\* The ProductAnalysis the AI collaborator returns for the k-th product.
AiAnalysis(k) ==
  [userProduct |-> [productName  |-> Str(ProductNames[k]),
                    currentPrice |-> FoundPrice[k]],
   competitors             |-> FoundCompetitors[k],
   suggestedPrice          |-> AiSuggested[k],
   reasoning               |-> <<"reasoning", k>>,
   marketSummary           |-> <<"marketSummary", k>>,
   historicalPriceAnalysis |-> <<"historicalPriceAnalysis", k>>,
   sources                 |-> <<"sources", k>>]

ProductIndex(product) == CHOOSE k \in 1..NumProducts : CsvProduct(k) = product

\* The messages performSingleAnalysis throws.
AiErrors == {"The AI returned a response that could not be processed.",
             "Failed to get analysis from AI."}

\* --------------------------------------------- the prediction collaborator

\* What a prediction request comes back with: the request itself rejected
\* (kind "reject"), a non-OK HTTP status whose body has the given detail
\* ("not_ok"), an OK status whose body is not JSON ("bad_json"), or an OK
\* status with a JSON body ("ok"): an object or not, and the value of its
\* predicted_price / predicted_prices (Undef when it has none).
Response(kind, detail, isObject, value) ==
  [kind |-> kind, detail |-> detail, isObject |-> isObject, value |-> value]

NotTrained ==
  <<"M", "o", "d", "e", "l", " ", "N", "o", "t", " ", "T", "r", "a", "i", "n",
    "e", "d">>

FailedResponses ==
  { Response("reject", Undef, FALSE, Undef),
    Response("not_ok", Str(NotTrained), FALSE, Undef),
    Response("not_ok", Undef, FALSE, Undef),
    Response("bad_json", Undef, FALSE, Undef),
    Response("ok", Undef, FALSE, Undef) }

\* The values of predicted_price in an OK single answer.
SingleValues ==
  { Undef, Null, Str(<<>>), Str(<<"a", "b", "c">>), Bool(TRUE), Bool(FALSE),
    Arr(<<>>), Arr(<<Num(4507)>>), Num(4507), Num(4500), Num(25), Num(0 - 25),
    Str(<<"4", "5", "0", ".", "7">>), Inf }

SingleResponses ==
  FailedResponses \cup {Response("ok", Undef, TRUE, v) : v \in SingleValues}

\* The entries of predicted_prices in an OK batch answer.
BatchValues == {Num(4507), Num(0 - 25), Inf}

\* The batch answers to n payloads: predicted_prices missing, null, or a list
\* of up to n + 1 entries.
BatchResponses(n) ==
  FailedResponses
    \cup {Response("ok", Undef, TRUE, v) : v \in {Undef, Null}}
    \cup {Response("ok", Undef, TRUE, Arr(l)) :
            l \in UNION {[1..m -> BatchValues] : m \in 0..(n + 1)}}

FailedToFetch ==
  <<"F", "a", "i", "l", "e", "d", " ", "t", "o", " ", "f", "e", "t", "c",
    "h">>
PredictionFailed ==
  <<"P", "r", "e", "d", "i", "c", "t", "i", "o", "n", " ", "f", "a", "i", "l",
    "e", "d">>
BatchPredictionFailed ==
  <<"B", "a", "t", "c", "h", " ", "p", "r", "e", "d", "i", "c", "t", "i", "o",
    "n", " ", "f", "a", "i", "l", "e", "d">>
NotJson ==
  <<"U", "n", "e", "x", "p", "e", "c", "t", "e", "d", " ", "t", "o", "k", "e",
    "n">>
CannotRead ==
  <<"C", "a", "n", "n", "o", "t", " ", "r", "e", "a", "d", " ", "p", "r", "o",
    "p", "e", "r", "t", "i", "e", "s">>

\* The outcome of a call: it threw an error with a message, or returned.
Threw(msg)  == [threw |-> TRUE,  msg |-> msg,  value |-> Undef]
Returned(v) == [threw |-> FALSE, msg |-> <<>>, value |-> v]

\* A variant of Fetched: a failed request answered with 0 instead of thrown.
FetchedZeroOnFailure(r, fallback) ==
  IF r.kind = "ok" /\ r.isObject THEN Returned(r.value) ELSE Returned(Num(0))

\* fetch, the res.ok test and res.json() shared by predictPrice and
\* predictBatch; fallback is the message used when the body has no detail.
Fetched(r, fallback) ==
  CASE r.kind = "reject"   -> Threw(FailedToFetch)
    [] r.kind = "not_ok"   -> Threw(IF r.detail.t = "str" THEN r.detail.s
                                    ELSE fallback)
    [] r.kind = "bad_json" -> Threw(NotJson)
    [] r.kind = "ok"       -> IF r.isObject THEN Returned(r.value)
                              ELSE Threw(CannotRead)

\* predictPrice(payload), given what the request comes back with.
predictPrice(r) ==
  LET f == Fetched(r, PredictionFailed)
  IN  IF f.threw THEN f
      ELSE Returned(ToNumber(IF f.value.t = "arr"
                             THEN (IF f.value.a = <<>> THEN Undef
                                   ELSE f.value.a[1])
                             ELSE f.value))

\* predictBatch(payloads), given what the request comes back with.
predictBatch(r) == Fetched(r, BatchPredictionFailed)

\* The catch block of a refinement: which warning it logs.
Warning(msg) ==
  IF Includes(ToLowerCase(msg), <<"n", "o", "t", " ", "t", "r", "a", "i", "n",
                                  "e", "d">>)
  THEN "not_trained" ELSE "failed"

\* Lines 48-61 of handleAnalysis after predictPrice has settled: the refined
\* singleResult and the warning logged.
RefineSingle(a, r) ==
  LET predicted == predictPrice(r)
  IN  IF predicted.threw
      THEN [analysis |-> a, warned |-> Warning(predicted.msg)]
      ELSE IF NumberIsFinite(predicted.value)
      THEN [analysis |-> [a EXCEPT !.suggestedPrice =
                                     MathRound(ToNumber(predicted.value).n)],
            warned   |-> "none"]
      ELSE [analysis |-> a, warned |-> "none"]

\* A variant of ApplyPreds: prediction i written to analysis i - 1.
ApplyPredsShifted(as, preds) ==
  [list  |-> [i \in 1..Len(as) |->
                IF i + 1 <= Len(preds) /\ NumberIsFinite(preds[i + 1])
                THEN [as[i] EXCEPT !.suggestedPrice =
                                     MathRound(ToNumber(preds[i + 1]).n)]
                ELSE as[i]],
   threw |-> FALSE]

\* A variant of ApplyPreds: the reasoning rewritten along with the price.
ApplyPredsRewriting(as, preds) ==
  [list  |-> [i \in 1..Len(as) |->
                IF i <= Len(preds) /\ NumberIsFinite(preds[i])
                THEN [as[i] EXCEPT !.suggestedPrice =
                                     MathRound(ToNumber(preds[i]).n),
                                   !.reasoning = <<"reasoning", 0>>]
                ELSE as[i]],
   threw |-> \E i \in 1..Len(preds) : i > Len(as) /\ NumberIsFinite(preds[i])]

\* preds.forEach((p, i) => ...) over the analyses: every finite entry within
\* the list is written; a finite entry beyond it throws a TypeError, after
\* the entries before it have been written.
ApplyPreds(as, preds) ==
  [list  |-> [i \in 1..Len(as) |->
                IF i <= Len(preds) /\ NumberIsFinite(preds[i])
                THEN [as[i] EXCEPT !.suggestedPrice =
                                     MathRound(ToNumber(preds[i]).n)]
                ELSE as[i]],
   threw |-> \E i \in 1..Len(preds) : i > Len(as) /\ NumberIsFinite(preds[i])]

\* Lines 69-84 of handleAnalysis after predictBatch has settled.
RefineBatch(as, r) ==
  LET preds == predictBatch(r)
  IN  IF preds.threw
      THEN [list |-> as, warned |-> Warning(preds.msg)]
      ELSE IF preds.value.t # "arr"
      THEN [list |-> as, warned |-> Warning(CannotRead)]
      ELSE LET ap == ApplyPreds(as, preds.value.a)
           IN  [list   |-> ap.list,
                warned |-> IF ap.threw THEN Warning(CannotRead) ELSE "none"]

\* ----------------------------------------------------------- the state

VARIABLES
  status,       \* AppState.status
  data,         \* AppState.data
  error,        \* AppState.error
  pc,           \* where handleAnalysis is suspended, "idle" when it is not
  input,        \* the input of the current (or last) handleAnalysis
  promises,     \* analysisPromises: the AI calls and how they settled
  settleOrder,  \* the indices of the AI calls in the order they settled
  aiCalls,      \* the AI calls issued, in order
  analyses,     \* singleResult / analyses: the list being refined
  aiAnalyses,   \* the same list as the AI step returned it
  reordered,    \* whether the batch's AI calls settled out of input order
  outcome,      \* how each AI call had settled when handleAnalysis resumed
  failed,       \* failedAnalyses of the last batch
  submitted,    \* the payloads of the prediction request
  predCalls,    \* the number of prediction requests issued
  response,     \* what the prediction request came back with
  warned,       \* the console.warn of the refinement's catch block
  call,         \* a function called on its own: its name, argument, result
  form          \* ProductInputForm: csvProducts, fileName, error, file reads

vars == <<status, data, error, pc, input, promises, settleOrder, aiCalls,
          analyses, aiAnalyses, reordered, outcome, failed, submitted,
          predCalls, response, warned, call, form>>

\* What App holds and handleAnalysis works on.
appVars == <<status, data, error, pc, input, promises, settleOrder, aiCalls,
             analyses, aiAnalyses, reordered, outcome, failed, submitted,
             predCalls, response, warned>>

\* AppState.data and AppState.error, null or not.
NullData       == [isNull |-> TRUE,  list |-> <<>>]
ResultData(l)  == [isNull |-> FALSE, list |-> l]
NullError      == [isNull |-> TRUE,  text |-> "", names |-> <<>>]
ErrorOf(text)  == [isNull |-> FALSE, text |-> text, names |-> <<>>]

\* "All product analyses failed. The following products could not be
\* analyzed: <failedList>. ...", the names being failedAnalyses.join(', ').
AllFailedError(names) ==
  [isNull |-> FALSE, text |-> "All product analyses failed.", names |-> names]

NoInput    == [type |-> "none", products |-> <<>>, userProductUrl |-> <<>>]
NoResponse == Response("none", Undef, FALSE, Undef)

NoCall == [fn |-> "none", arg |-> <<>>, done |-> FALSE, ret |-> <<>>]

\* The form as it is mounted: no products, no file name, no error, and no
\* FileReader at work.
NoCsvError ==
  [kind |-> "none", row |-> 0, column |-> <<>>, value |-> <<>>,
   expected |-> 0, found |-> 0]
NoFormError == [isNull |-> TRUE, text |-> "", cause |-> NoCsvError]
NoFile == [name |-> "", text |-> <<>>]

\* The state of ProductInputForm after its first render.  reads are the
\* FileReaders at work and file is what the file input holds; timer tells
\* whether the debounce timeout is pending, requests counts the calls of
\* suggestCompetitors that have not returned, and suggestions is what the
\* last of them to return has returned.
NewForm ==
  [csvProducts |-> <<>>, fileName |-> "", error |-> NoFormError,
   reads |-> <<>>, file |-> NoFile,
   userProductUrl |-> <<>>, competitorUrls |-> << <<>>, <<>> >>,
   isSuggesting |-> FALSE, timer |-> FALSE, requests |-> 0,
   suggestions |-> <<>>]

Pending      == [state |-> "pending",   value |-> <<>>,  reason |-> ""]
Fulfilled(a) == [state |-> "fulfilled", value |-> <<a>>, reason |-> ""]
Rejected(e)  == [state |-> "rejected",  value |-> <<>>,  reason |-> e]

AppInit ==
  /\ status = "idle"
  /\ data = NullData
  /\ error = NullError
  /\ pc = "idle"
  /\ input = NoInput
  /\ promises = <<>>
  /\ settleOrder = <<>>
  /\ aiCalls = <<>>
  /\ analyses = <<>>
  /\ aiAnalyses = <<>>
  /\ reordered = FALSE
  /\ outcome = <<>>
  /\ failed = <<>>
  /\ submitted = <<>>
  /\ predCalls = 0
  /\ response = NoResponse
  /\ warned = "none"

Init == AppInit /\ call = NoCall /\ form = NewForm

\* ------------------------------------------------- analyzeBatchProducts

\* userIdentifier of a CsvProduct: its URL if it has one, else name and price.
UserIdentifier(product) ==
  IF product.userProductUrl # <<>>
  THEN [url |-> product.userProductUrl, name |-> <<>>, price |-> 0]
  ELSE [url |-> <<>>, name |-> product.productName,
        price |-> product.currentPrice]

\* products.map(product => performSingleAnalysis(...)): one call per item,
\* each issued (up to its first await) before the next.
IssueCalls(products) ==
  [i \in 1..Len(products) |->
     [index |-> i, identifier |-> UserIdentifier(products[i]),
      competitorUrls |-> products[i].competitorUrls]]

\* A variant of AllSettled: Promise.all, which settles on the first
\* rejection.
SettledAsPromiseAll(ps) ==
  \/ \E i \in 1..Len(ps) : ps[i].state = "rejected"
  \/ \A i \in 1..Len(ps) : ps[i].state = "fulfilled"

\* Promise.allSettled(analysisPromises) resolves once no call is pending.
AllSettled(ps) == \A i \in 1..Len(ps) : ps[i].state # "pending"

\* A variant of SuccessfulAnalyses: the fulfilled values pushed as the calls
\* settle, so in arrival order.
RECURSIVE InArrivalOrder(_, _)
InArrivalOrder(results, order) ==
  IF order = <<>> THEN <<>>
  ELSE (IF results[Head(order)].state = "fulfilled"
        THEN results[Head(order)].value ELSE <<>>)
         \o InArrivalOrder(results, Tail(order))

SuccessfulByArrival(results) == InArrivalOrder(results, settleOrder)

\* successfulAnalyses: results.forEach pushes the fulfilled values by index.
RECURSIVE SuccessfulAnalyses(_)
SuccessfulAnalyses(results) ==
  IF results = <<>> THEN <<>>
  ELSE SuccessfulAnalyses(SubSeq(results, 1, Len(results) - 1))
         \o (IF results[Len(results)].state = "fulfilled"
             THEN results[Len(results)].value ELSE <<>>)

\* failedAnalyses: the productName of every item that was not fulfilled.
RECURSIVE FailedAnalyses(_, _)
FailedAnalyses(results, products) ==
  IF results = <<>> THEN <<>>
  ELSE FailedAnalyses(SubSeq(results, 1, Len(results) - 1), products)
         \o (IF results[Len(results)].state = "fulfilled"
             THEN <<>> ELSE <<products[Len(results)].productName>>)

\* A variant of AllFailed: the results.length > 0 test left out.
AllFailedOrEmpty(results) == Len(SuccessfulAnalyses(results)) = 0

\* successfulAnalyses.length === 0 && results.length > 0
AllFailed(results) ==
  Len(SuccessfulAnalyses(results)) = 0 /\ Len(results) > 0

\* ------------------------------------------------------- handleAnalysis

\* A variant of Begin: the result and the error shown so far are kept while
\* the new analysis loads.
BeginKeepingState(in, calls) ==
  /\ status' = "loading"
  /\ UNCHANGED <<data, error>>
  /\ input' = in
  /\ aiCalls' = calls
  /\ promises' = [i \in 1..Len(calls) |-> Pending]
  /\ settleOrder' = <<>>
  /\ analyses' = <<>>
  /\ aiAnalyses' = <<>>
  /\ reordered' = FALSE
  /\ outcome' = <<>>
  /\ failed' = <<>>
  /\ submitted' = <<>>
  /\ predCalls' = 0
  /\ response' = NoResponse
  /\ warned' = "none"

\* The state a new handleAnalysis starts from: setState(loading) and its
\* locals fresh.
Begin(in, calls) ==
  /\ status' = "loading"
  /\ data' = NullData
  /\ error' = NullError
  /\ input' = in
  /\ aiCalls' = calls
  /\ promises' = [i \in 1..Len(calls) |-> Pending]
  /\ settleOrder' = <<>>
  /\ analyses' = <<>>
  /\ aiAnalyses' = <<>>
  /\ reordered' = FALSE
  /\ outcome' = <<>>
  /\ failed' = <<>>
  /\ submitted' = <<>>
  /\ predCalls' = 0
  /\ response' = NoResponse
  /\ warned' = "none"

UserUrl == <<"u", "/", "s">>

\* handleAnalysis({type: "url", ...}) up to its await of analyzeSingleProduct;
\* the form submits a non-empty URL and only while nothing is loading.
StartUrl ==
  /\ UNCHANGED <<call, form>>
  /\ status # "loading"
  /\ Begin([type |-> "url", products |-> <<>>, userProductUrl |-> UserUrl],
           << [index |-> 1,
               identifier |-> [url |-> UserUrl, name |-> <<>>, price |-> 0],
               competitorUrls |-> <<>>] >>)
  /\ pc' = "single_ai"

\* A variant of StartCsv: the button is not disabled while loading.
StartCsvWhileLoading ==
  /\ UNCHANGED <<call, form>>
  /\ \E products \in Batches :
       Begin([type |-> "csv", products |-> products, userProductUrl |-> <<>>],
             IssueCalls(products))
  /\ pc' = "batch_ai"

\* handleAnalysis({type: "csv", products}) up to the await of
\* Promise.allSettled inside analyzeBatchProducts; the button that submits
\* the batch is disabled while an analysis is loading.
StartCsv ==
  /\ UNCHANGED <<call, form>>
  /\ status # "loading"
  /\ \E products \in Batches :
       Begin([type |-> "csv", products |-> products, userProductUrl |-> <<>>],
             IssueCalls(products))
  /\ pc' = "batch_ai"

\* The analyses the AI may return to call i.
AiAnswers(i) ==
  IF input.type = "csv"
  THEN {AiAnalysis(ProductIndex(input.products[i]))}
  ELSE {AiAnalysis(k) : k \in 1..NumProducts}

\* The AI call i returns an analysis.
AiFulfil ==
  /\ UNCHANGED <<call, form>>
  /\ pc \in {"single_ai", "batch_ai"}
  /\ \E i \in 1..Len(promises) :
       /\ promises[i].state = "pending"
       /\ \E a \in AiAnswers(i) :
            promises' = [promises EXCEPT ![i] = Fulfilled(a)]
       /\ settleOrder' = Append(settleOrder, i)
  /\ UNCHANGED <<status, data, error, pc, input, aiCalls, analyses,
                 aiAnalyses, reordered, outcome, failed, submitted, predCalls,
                 response, warned>>

\* The AI call i fails.
AiReject ==
  /\ UNCHANGED <<call, form>>
  /\ pc \in {"single_ai", "batch_ai"}
  /\ \E i \in 1..Len(promises) :
       /\ promises[i].state = "pending"
       /\ \E e \in AiErrors :
            promises' = [promises EXCEPT ![i] = Rejected(e)]
       /\ settleOrder' = Append(settleOrder, i)
  /\ UNCHANGED <<status, data, error, pc, input, aiCalls, analyses,
                 aiAnalyses, reordered, outcome, failed, submitted, predCalls,
                 response, warned>>

\* A variant of Fail: the message of the caught error is dropped.
FailUnknown(err) ==
  /\ status' = "error"
  /\ data' = NullData
  /\ error' = ErrorOf("An unknown error occurred.")
  /\ pc' = "idle"

\* A variant of Fail: the error is swallowed and no state is set.
FailSilently(err) ==
  /\ UNCHANGED <<status, data, error>>
  /\ pc' = "idle"

\* The catch block of handleAnalysis: setState(error).
Fail(err) ==
  /\ status' = "error"
  /\ data' = NullData
  /\ error' = err
  /\ pc' = "idle"

\* The end of the try block of handleAnalysis: setState(success).
Succeed(result) ==
  /\ status' = "success"
  /\ data' = ResultData(result)
  /\ error' = NullError
  /\ pc' = "idle"

\* A prediction request goes out for the analyses the AI step returned.
Predict(list, payloads, next) ==
  /\ analyses' = list
  /\ aiAnalyses' = list
  /\ submitted' = payloads
  /\ predCalls' = predCalls + 1
  /\ pc' = next
  /\ UNCHANGED <<status, data, error>>

\* handleAnalysis resumes after analyzeSingleProduct: the error state if it
\* failed, else the payload is built and predictPrice called.
SingleResume ==
  /\ UNCHANGED <<call, form>>
  /\ pc = "single_ai"
  /\ AllSettled(promises)
  /\ IF promises[1].state = "rejected"
     THEN /\ Fail(ErrorOf(promises[1].reason))
          /\ UNCHANGED <<analyses, aiAnalyses, submitted, predCalls>>
     ELSE Predict(promises[1].value,
                  <<analysisToPredictPayload(promises[1].value[1])>>,
                  "single_pred")
  /\ outcome' = [i \in 1..Len(promises) |-> promises[i].state]
  /\ promises' = <<>>
  /\ settleOrder' = <<>>
  /\ UNCHANGED <<input, aiCalls, reordered, failed, response, warned>>

\* predictPrice settles: the refinement, then setState(success).
SinglePredSettle ==
  /\ UNCHANGED <<call, form>>
  /\ pc = "single_pred"
  /\ \E r \in SingleResponses :
       LET refined == RefineSingle(analyses[1], r)
       IN  /\ response' = r
           /\ analyses' = <<refined.analysis>>
           /\ warned' = refined.warned
           /\ Succeed(<<refined.analysis>>)
  /\ UNCHANGED <<input, promises, settleOrder, aiCalls, aiAnalyses, reordered,
                 outcome, failed, submitted, predCalls>>

\* Promise.allSettled resolves: the rest of analyzeBatchProducts, and
\* handleAnalysis on to its await of predictBatch, or to its catch block.
BatchJoin ==
  /\ UNCHANGED <<call, form>>
  /\ pc = "batch_ai"
  /\ AllSettled(promises)
  /\ \E failedAnalyses \in {FailedAnalyses(promises, input.products)} :
       /\ failed' = failedAnalyses
       /\ IF AllFailed(promises)
          THEN /\ Fail(AllFailedError(failedAnalyses))
               /\ UNCHANGED <<analyses, aiAnalyses, submitted, predCalls>>
          ELSE \E successful \in {SuccessfulAnalyses(promises)} :
                 \E payloads \in {analysesToPredictPayloads(successful)} :
                   Predict(successful, payloads, "batch_pred")
  /\ reordered' = (settleOrder # [i \in 1..Len(promises) |-> i])
  /\ outcome' = [i \in 1..Len(promises) |-> promises[i].state]
  /\ promises' = <<>>
  /\ settleOrder' = <<>>
  /\ UNCHANGED <<input, aiCalls, response, warned>>

\* predictBatch settles: the refinement, then setState(success).
BatchPredSettle ==
  /\ UNCHANGED <<call, form>>
  /\ pc = "batch_pred"
  /\ \E r \in BatchResponses(Len(submitted)) :
       LET refined == RefineBatch(analyses, r)
       IN  /\ response' = r
           /\ analyses' = refined.list
           /\ warned' = refined.warned
           /\ Succeed(refined.list)
  /\ UNCHANGED <<input, promises, settleOrder, aiCalls, aiAnalyses, reordered,
                 outcome, failed, submitted, predCalls>>

Next ==
  \/ StartUrl
  \/ StartCsv
  \/ AiFulfil
  \/ AiReject
  \/ SingleResume
  \/ SinglePredSettle
  \/ BatchJoin
  \/ BatchPredSettle

Spec == Init /\ [][Next]_vars

\* The application when every call to the AI and to the prediction service
\* settles, and every continuation whose promise has settled is run.
Settling == AiFulfil \/ AiReject

Resuming == SingleResume \/ BatchJoin

PredictionSettling == SinglePredSettle \/ BatchPredSettle

SpecLive ==
  /\ Init
  /\ [][Next]_vars
  /\ WF_vars(Settling)
  /\ WF_vars(Resuming)
  /\ WF_vars(PredictionSettling)

\* ------------------------------------- analysisToPredictPayload on its own

\* The analyses the mapper is called on: what JSON.parse may leave in the
\* fields it reads.
PayloadNames ==
  { Str(ProductNames[1]), Str(ProductNames[2]), Str(ProductNames[3]),
    Str(ProductNames[4]), Str(<<>>), Undef,
    Str(<<"i", "P", "H", "O", "N", "E", " ", "s", "o", "c", "k">>) }

PayloadPrices ==
  { Num(5000), Num(0), Num(125), NaN, Null, Undef, Str(<<>>),
    Str(<<"1", "2", ".", "5">>), Str(<<"-", "4", ".", "5">>),
    Str(<<"4", ",", "0", "0", "0">>), Str(<<"1", "e", "3">>),
    Str(<<" ", "3", "9", ".", "5", " ">>), Str(<<"1", "2", "3", "a">>) }

CompetitorPrices ==
  { Num(4500), Str(<<"a", "b", "c">>), Str(<<" ", "3", "9", ".", "5", " ">>),
    Inf }

PayloadCompetitors ==
  {Undef, Null}
    \cup {Arr(l) : l \in UNION {[1..n -> [price : CompetitorPrices]] :
                                  n \in 0..MaxCompetitors}}

PayloadInputs ==
  {[AiAnalysis(1) EXCEPT !.userProduct = [productName |-> n,
                                          currentPrice |-> p],
                         !.competitors = c] :
     n \in PayloadNames, p \in PayloadPrices, c \in PayloadCompetitors}

InitPayload ==
  /\ AppInit
  /\ form = NewForm
  /\ \E a \in PayloadInputs :
       call = [fn |-> "analysisToPredictPayload", arg |-> a, done |-> FALSE,
               ret |-> <<>>]

\* analysisToPredictPayload(a) is called.
MapPayload ==
  /\ call.fn = "analysisToPredictPayload"
  /\ ~call.done
  /\ call' = [call EXCEPT !.done = TRUE,
                          !.ret = analysisToPredictPayload(call.arg)]
  /\ UNCHANGED <<status, data, error, pc, input, promises, settleOrder,
                 aiCalls, analyses, aiAnalyses, reordered, outcome, failed,
                 submitted, predCalls, response, warned, form>>

NextPayload == MapPayload

SpecPayload == InitPayload /\ [][NextPayload]_vars

\* ------------------------- parseStrictNumber and inferCategory on their own

NumeralChars == {"1", "-", ".", "e", ",", " ", "a"}

\* The values parseStrictNumber is called on: numbers, NaN, Infinity, values
\* that are neither numbers nor strings, every string of up to MaxNumeralLen
\* characters of NumeralChars, and some longer strings.
StrictInputs ==
  {Num(1230), Num(0 - 45), Num(0), NaN, Inf, Null, Undef, Bool(TRUE),
   Arr(<<>>), Str(<<"1", "2", "3">>), Str(<<"-", "4", ".", "5">>),
   Str(<<"1", "2", "3", "a", "b", "c">>), Str(<<"1", "e", "3">>),
   Str(<<"1", ",", "0", "0", "0">>), Str(<<" ", "4", "2", " ">>),
   Str(<<"1", "2", ".", "5", "k", "g">>)} \cup
  {Str(s) : s \in UNION {[1..n -> NumeralChars] : n \in 0..MaxNumeralLen}}

CategoryWords ==
  << <<"S", "h", "o", "e">>, <<"S", "N", "E", "A", "K", "E", "R", "S">>,
     <<"i", "P", "h", "o", "n", "e">>, <<"M", "o", "b", "i", "l", "e">>,
     <<"T", "-", "S", "h", "i", "r", "t">>, <<"s", "h", "i", "r", "t", "s">>,
     <<"M", "u", "g">>, <<>> >>

\* The names inferCategory is called on: none, and up to MaxWords of
\* CategoryWords with spaces between them.
CategoryInputs ==
  {Null, Undef} \cup
  {Str(Join([i \in DOMAIN w |-> CategoryWords[w[i]]], <<" ">>)) :
     w \in UNION {[1..n -> 1..Len(CategoryWords)] : n \in 1..MaxWords}}

InitNormalize ==
  /\ AppInit
  /\ form = NewForm
  /\ \/ \E v \in StrictInputs :
          call = [fn |-> "parseStrictNumber", arg |-> v, done |-> FALSE,
                  ret |-> <<>>]
     \/ \E n \in CategoryInputs :
          call = [fn |-> "inferCategory", arg |-> n, done |-> FALSE,
                  ret |-> <<>>]

\* parseStrictNumber(value) is called.
ParseStrictNumber ==
  /\ call.fn = "parseStrictNumber"
  /\ ~call.done
  /\ call' = [call EXCEPT !.done = TRUE, !.ret = parseStrictNumber(call.arg)]
  /\ UNCHANGED <<appVars, form>>

\* inferCategory(name) is called.
InferCategory ==
  /\ call.fn = "inferCategory"
  /\ ~call.done
  /\ call' = [call EXCEPT !.done = TRUE, !.ret = inferCategory(call.arg)]
  /\ UNCHANGED <<appVars, form>>

NextNormalize ==
  \/ ParseStrictNumber
  \/ InferCategory

SpecNormalize == InitNormalize /\ [][NextNormalize]_vars

\* ------------------------------------------------------------- parseCsv

\* String.prototype.split on a one-character separator.
RECURSIVE Split(_, _)
Split(s, sep) ==
  LET k == IndexOf(s, sep)
  IN  IF k = 0 THEN <<s>>
      ELSE <<SubSeq(s, 1, k - 1)>> \o Split(SubSeq(s, k + 1, Len(s)), sep)

\* text.split(/\r?\n/): a carriage return right before the newline belongs
\* to the separator.
SplitLines(text) ==
  LET parts == Split(text, "\n")
  IN  [i \in 1..Len(parts) |->
         IF i < Len(parts) /\ parts[i] # <<>> /\ parts[i][Len(parts[i])] = "\r"
         THEN SubSeq(parts[i], 1, Len(parts[i]) - 1)
         ELSE parts[i]]

\* .filter(line => line.trim() !== '')
NonBlank(lines) == SelectSeq(lines, LAMBDA l : Trim(l) # <<>>)

ProductNameColumn    == <<"p", "r", "o", "d", "u", "c", "t", "N", "a", "m",
                          "e">>
CurrentPriceColumn   == <<"c", "u", "r", "r", "e", "n", "t", "P", "r", "i",
                          "c", "e">>
UserProductUrlColumn == <<"u", "s", "e", "r", "P", "r", "o", "d", "u", "c",
                          "t", "U", "r", "l">>
CompetitorUrlsColumn == <<"c", "o", "m", "p", "e", "t", "i", "t", "o", "r",
                          "U", "r", "l", "s">>

\* A variant of RequiredHeaders: the price column is looked for first.
RequiredHeadersPriceFirst == <<CurrentPriceColumn, ProductNameColumn>>

RequiredHeaders == <<ProductNameColumn, CurrentPriceColumn>>

\* The errors parseCsv throws: what went wrong, on which row, and the parts
\* of the message that vary.
CsvError(kind, row, column, value, expected, found) ==
  [kind |-> kind, row |-> row, column |-> column, value |-> value,
   expected |-> expected, found |-> found]

EmptyFile             == CsvError("empty", 0, <<>>, <<>>, 0, 0)
MissingColumn(c)      == CsvError("header", 0, c, <<>>, 0, 0)
WrongColumns(r, e, f) == CsvError("columns", r, <<>>, <<>>, e, f)
EmptyName(r)          == CsvError("name", r, <<>>, <<>>, 0, 0)
EmptyPrice(r)         == CsvError("price-empty", r, <<>>, <<>>, 0, 0)
InvalidPrice(r, v)    == CsvError("price-invalid", r, <<>>, v, 0, 0)
NegativePrice(r, v)   == CsvError("price-negative", r, <<>>, v, 0, 0)

\* productData[col] after header.reduce: the trimmed value under the last
\* header cell named col, undefined when no header cell has that name.
ProductData(header, values, col) ==
  IF \E i \in 1..Len(header) : header[i] = col
  THEN LET i == CHOOSE i \in 1..Len(header) :
                  /\ header[i] = col
                  /\ \A j \in (i + 1)..Len(header) : header[j] # col
       IN  Str(IF values[i] # <<>> THEN Trim(values[i]) ELSE <<>>)
  ELSE Undef

\* A variant of SplitUrls: the empty pieces are kept.
SplitUrlsKeepingEmpty(s) ==
  LET parts == Split(s, ";")
  IN  [i \in 1..Len(parts) |-> Trim(parts[i])]

\* u.split(';').map(u => u.trim()).filter(Boolean)
SplitUrls(s) ==
  LET parts == Split(s, ";")
  IN  SelectSeq([i \in 1..Len(parts) |-> Trim(parts[i])], LAMBDA u : u # <<>>)

\* The CsvProduct a row is returned as.
RowProduct(name, n, url, urls) ==
  [productName    |-> name.s,
   currentPrice   |-> n.n,
   userProductUrl |-> url.s,
   competitorUrls |-> IF urls.s # <<>> THEN SplitUrls(urls.s) ELSE <<>>]

\* A variant of ParseRow: a negative price is let through.
ParseRowAllowingNegative(header, row, rowNum) ==
  LET values == Split(row, ",")
      name   == ProductData(header, values, ProductNameColumn)
      price  == ProductData(header, values, CurrentPriceColumn)
      url    == ProductData(header, values, UserProductUrlColumn)
      urls   == ProductData(header, values, CompetitorUrlsColumn)
      n      == StringToNumber(price.s)
  IN  IF Len(values) # Len(header)
      THEN Threw(WrongColumns(rowNum, Len(header), Len(values)))
      ELSE IF name.s = <<>> THEN Threw(EmptyName(rowNum))
      ELSE IF price.t = "undef" \/ price.s = <<>>
      THEN Threw(EmptyPrice(rowNum))
      ELSE IF n.t # "num" THEN Threw(InvalidPrice(rowNum, price.s))
      ELSE Returned(RowProduct(name, n, url, urls))

\* The callback of rows.map: one row into one CsvProduct, or the error thrown.
ParseRow(header, row, rowNum) ==
  LET values == Split(row, ",")
      name   == ProductData(header, values, ProductNameColumn)
      price  == ProductData(header, values, CurrentPriceColumn)
      url    == ProductData(header, values, UserProductUrlColumn)
      urls   == ProductData(header, values, CompetitorUrlsColumn)
      n      == StringToNumber(price.s)
  IN  IF Len(values) # Len(header)
      THEN Threw(WrongColumns(rowNum, Len(header), Len(values)))
      ELSE IF name.s = <<>> THEN Threw(EmptyName(rowNum))
      ELSE IF price.t = "undef" \/ price.s = <<>>
      THEN Threw(EmptyPrice(rowNum))
      ELSE IF n.t # "num" THEN Threw(InvalidPrice(rowNum, price.s))
      ELSE IF n.n < 0 THEN Threw(NegativePrice(rowNum, price.s))
      ELSE Returned(RowProduct(name, n, url, urls))

\* rowNum = index + 2, index being the row's 0-based position in rows.
RowNum(j) == (j - 1) + 2

\* A variant of RowsParsed: an invalid row is left out instead of thrown.
RowsParsedSkipping(results) ==
  Returned(LET ok == SelectSeq(results, LAMBDA r : ~r.threw)
           IN  [j \in 1..Len(ok) |-> ok[j].value])

\* rows.map(...) as a whole: the first row that throws ends the map with its
\* error; otherwise the products, one per row in order.
RowsParsed(results) ==
  IF \E j \in 1..Len(results) : results[j].threw
  THEN results[CHOOSE j \in 1..Len(results) :
                 /\ results[j].threw
                 /\ \A k \in 1..(j - 1) : ~results[k].threw]
  ELSE Returned([j \in 1..Len(results) |-> results[j].value])

\* parseCsv(text)
parseCsv(text) ==
  LET lines   == NonBlank(SplitLines(text))
      cells   == Split(lines[1], ",")
      header  == [i \in 1..Len(cells) |-> Trim(cells[i])]
      missing == SelectSeq(RequiredHeaders,
                           LAMBDA r : \A i \in 1..Len(header) : header[i] # r)
      rows    == Tail(lines)
  IN  IF Len(lines) < 2 THEN Threw(EmptyFile)
      ELSE IF missing # <<>> THEN Threw(MissingColumn(missing[1]))
      ELSE RowsParsed([j \in 1..Len(rows) |->
                         ParseRow(header, rows[j], RowNum(j))])

\* ------------------------------------------------- the upload of a CSV file

\* The header lines and the data lines the chosen files are made of.
HeaderLines ==
  << <<"p", "r", "o", "d", "u", "c", "t", "N", "a", "m", "e", ",", "c", "u",
       "r", "r", "e", "n", "t", "P", "r", "i", "c", "e">>,
     <<"c", "u", "r", "r", "e", "n", "t", "P", "r", "i", "c", "e", ",", " ",
       "p", "r", "o", "d", "u", "c", "t", "N", "a", "m", "e">>,
     <<"p", "r", "o", "d", "u", "c", "t", "N", "a", "m", "e", ",", "c", "u",
       "r", "r", "e", "n", "t", "P", "r", "i", "c", "e", ",", "c", "o", "m",
           "p", "e", "t", "i", "t", "o", "r", "U", "r", "l", "s">>,
     <<"n", "a", "m", "e", ",", "p", "r", "i", "c", "e">>,
     <<"p", "r", "o", "d", "u", "c", "t", "N", "a", "m", "e", ",", "p", "r",
       "i", "c", "e">>,
     <<"P", "r", "o", "d", "u", "c", "t", "N", "a", "m", "e", ",", "c", "u",
       "r", "r", "e", "n", "t", "P", "r", "i", "c", "e">> >>

DataLines ==
  << <<"S", "h", "o", "e", ",", "5", "0">>,
     <<"M", "u", "g", ",", "1", "2", ".", "5">>,
     <<>>,
     <<" ", " ">>,
     <<"S", "h", "o", "e", ",", "5", "0", ",", "a", ";", "b", ";", " ", ";",
       "c">>,
     <<",", "5", "0">>,
     <<"C", "a", "p", ",">>,
     <<"C", "a", "p", ",", "a", "b", "c">>,
     <<"C", "a", "p", ",", "-", "5">>,
     <<" ", "C", "a", "p", " ", ",", " ", "7", " ">>,
     <<"C", "a", "p", ",", "I", "n", "f", "i", "n", "i", "t", "y">>,
     <<"5", "0", ",", "M", "u", "g">>,
     <<"C", "a", "p", ",", "0">>,
     <<"M", "u", "g", ",", "9", ",">> >>

RowChoices == UNION {[1..n -> 1..Len(DataLines)] : n \in 0..MaxRows}

LinesOf(h, r) == <<HeaderLines[h]>> \o [i \in 1..Len(r) |-> DataLines[r[i]]]

\* The texts of the files the user may choose: a header line and up to
\* MaxRows data lines, either joined by newlines or each ended by a carriage
\* return and a newline; and the empty file.
FileTexts ==
  {<<>>} \cup
  UNION {{Join(LinesOf(h, r), <<"\n">>),
          Join(LinesOf(h, r), <<"\r", "\n">>) \o <<"\r", "\n">>} :
           h \in 1..Len(HeaderLines), r \in RowChoices}

\* The file chosen earlier, and the form that has parsed it.
EarlierText == <<"p", "r", "o", "d", "u", "c", "t", "N", "a", "m", "e", ",",
                 "c", "u", "r", "r", "e", "n", "t", "P", "r", "i", "c", "e",
                     "\n", "P", "h", "o", "n", "e", ",", "9", "9", "9">>

EarlierForm ==
  [NewForm EXCEPT !.csvProducts = parseCsv(EarlierText).value,
                  !.fileName = "old.csv",
                  !.file = [name |-> "old.csv", text |-> EarlierText]]

ParsingError(e) == [isNull |-> FALSE, text |-> "Parsing error: ", cause |-> e]
ReadingError ==
  [isNull |-> FALSE, text |-> "Error reading the file.", cause |-> NoCsvError]

\* handleFileChange(event) with a file chosen, up to reader.readAsText(file);
\* file is event.target.files[0], what the file input holds from then on.
PickFile(f) ==
  form' = [form EXCEPT !.error = NoFormError,
                       !.fileName = f.name,
                       !.reads = Append(@, f),
                       !.file = f]

\* A variant of Loaded: a failed parse leaves the earlier products in place.
LoadedKeepingProducts(f, parsed) ==
  IF parsed.threw
  THEN [error |-> ParsingError(parsed.msg), csvProducts |-> form.csvProducts,
        fileName |-> ""]
  ELSE [error |-> form.error, csvProducts |-> parsed.value,
        fileName |-> form.fileName]

\* The body of reader.onload: what it leaves in error, csvProducts, fileName.
Loaded(f, parsed) ==
  IF parsed.threw
  THEN [error |-> ParsingError(parsed.msg), csvProducts |-> <<>>,
        fileName |-> ""]
  ELSE [error |-> form.error, csvProducts |-> parsed.value,
        fileName |-> form.fileName]

\* The user chooses a file; one file is read and parsed in each behaviour.
ChooseFile ==
  /\ form \in {NewForm, EarlierForm}
  /\ call = NoCall
  /\ \E t \in FileTexts : PickFile([name |-> "new.csv", text |-> t])
  /\ UNCHANGED <<appVars, call>>

\* reader.onload fires for one of the files being read.
FileLoaded ==
  /\ \E i \in 1..Len(form.reads) :
       LET f      == form.reads[i]
           parsed == parseCsv(f.text)
           after  == Loaded(f, parsed)
       IN  /\ form' = [form EXCEPT
                         !.error = after.error,
                         !.csvProducts = after.csvProducts,
                         !.fileName = after.fileName,
                         !.reads = SubSeq(@, 1, i - 1) \o
                                   SubSeq(@, i + 1, Len(@))]
           /\ call' = [fn |-> "parseCsv", arg |-> f.text, done |-> TRUE,
                       ret |-> parsed]
  /\ UNCHANGED appVars

\* reader.onerror fires for one of the files being read.
FileReadFails ==
  /\ \E i \in 1..Len(form.reads) :
       form' = [form EXCEPT
                  !.error = ReadingError,
                  !.csvProducts = <<>>,
                  !.fileName = "",
                  !.reads = SubSeq(@, 1, i - 1) \o SubSeq(@, i + 1, Len(@))]
  /\ UNCHANGED <<appVars, call>>

InitCsv ==
  /\ AppInit
  /\ call = NoCall
  /\ form \in {NewForm, EarlierForm}

NextCsv ==
  \/ ChooseFile
  \/ FileLoaded
  \/ FileReadFails

SpecCsv == InitCsv /\ [][NextCsv]_vars

\* ------------------------------------------- files chosen one after another

\* The most reads under way at once.
MaxPending == 2

\* The files the user chooses among: two that parse and one that does not.
Files ==
  { [name |-> "a.csv", text |-> Join(LinesOf(1, <<1>>), <<"\n">>)],
    [name |-> "b.csv", text |-> Join(LinesOf(1, <<2, 13>>), <<"\n">>)],
    [name |-> "bad.csv", text |-> Join(LinesOf(4, <<1>>), <<"\n">>)] }

\* The user chooses another file, whether or not the files chosen before
\* have been read: each handleFileChange has a FileReader of its own.
SelectFile ==
  /\ Len(form.reads) < MaxPending
  /\ \E f \in Files :
       /\ f # form.file
       /\ PickFile(f)
  /\ UNCHANGED <<appVars, call>>

NextUpload ==
  \/ SelectFile
  \/ FileLoaded
  \/ FileReadFails

SpecUpload == Init /\ [][NextUpload]_vars

\* ------------------------------------------------------------ the URL form

\* The most competitor fields the user adds by hand (a merge is followed as
\* long as it leaves at most one field more), and the most calls of
\* suggestCompetitors under way at once.
MaxUrls == 3
MaxRequests == 2

\* What the user types: a product URL, a competitor URL (a url input holds
\* no blank around its value, and may be emptied).
UserUrls == {<<>>, <<"u">>, <<"v">>}
CompetitorUrls == {<<>>, <<"x">>}

\* What suggestCompetitors returns: any list of strings the AI has answered,
\* the empty list when it has failed.
Suggestions ==
  { <<>>, << <<"x">>, <<"z">> >>, << <<"z">>, <<"z">> >>, << <<"x">> >> }

\* A variant of CanRemove: the remove button is never disabled.
CanRemoveAlways(urls) == TRUE

\* The remove buttons are disabled when competitorUrls.length <= 1.
CanRemove(urls) == ~(Len(urls) <= 1)

\* u.trim() !== ''
NotBlank(u) == Trim(u) # <<>>

\* while (combined.length < 2) combined.push('')
PadToTwo(combined) ==
  combined \o [i \in 1..(2 - Len(combined)) |-> <<>>]

\* The updater handed to setCompetitorUrls in triggerSuggestions.
MergeSuggestions(prev, suggestions) ==
  LET filled         == SelectSeq(prev, NotBlank)
      existing       == {filled[i] : i \in 1..Len(filled)}
      newSuggestions == SelectSeq(suggestions, LAMBDA u : u \notin existing)
  IN  PadToTwo(filled \o newSuggestions)

\* handleAddCompetitor()
HandleAddCompetitor ==
  /\ Len(form.competitorUrls) < MaxUrls
  /\ form' = [form EXCEPT !.competitorUrls = Append(@, <<>>)]
  /\ UNCHANGED <<appVars, call>>

\* handleRemoveCompetitor(index), by a remove button that is not disabled.
HandleRemoveCompetitor ==
  /\ CanRemove(form.competitorUrls)
  /\ \E index \in 1..Len(form.competitorUrls) :
       form' = [form EXCEPT !.competitorUrls =
                  SubSeq(@, 1, index - 1) \o SubSeq(@, index + 1, Len(@))]
  /\ UNCHANGED <<appVars, call>>

\* handleCompetitorUrlChange(index, value)
HandleCompetitorUrlChange ==
  /\ \E index \in 1..Len(form.competitorUrls), value \in CompetitorUrls :
       /\ value # form.competitorUrls[index]
       /\ form' = [form EXCEPT !.competitorUrls[index] = value]
  /\ UNCHANGED <<appVars, call>>

\* handleUserUrlChange(e): the URL is kept and the debounce timeout set
\* anew.
HandleUserUrlChange ==
  /\ \E url \in UserUrls :
       /\ url # form.userProductUrl
       /\ form' = [form EXCEPT !.userProductUrl = url, !.timer = TRUE]
  /\ UNCHANGED <<appVars, call>>

\* The debounce timeout fires: triggerSuggestions(url) up to its await of
\* suggestCompetitors, or to its return when the URL is blank.
DebounceFires ==
  /\ form.timer
  /\ IF ~NotBlank(form.userProductUrl)
     THEN form' = [form EXCEPT !.timer = FALSE]
     ELSE /\ form.requests < MaxRequests
          /\ form' = [form EXCEPT !.timer = FALSE,
                                  !.isSuggesting = TRUE,
                                  !.error = NoFormError,
                                  !.requests = @ + 1]
  /\ UNCHANGED <<appVars, call>>

\* suggestCompetitors returns to one of the triggerSuggestions waiting for
\* it: the merge when there are suggestions, then the finally block.
SuggestionsArrive ==
  /\ form.requests > 0
  /\ \E suggestions \in Suggestions :
       /\ Len(MergeSuggestions(form.competitorUrls, suggestions)) <= MaxUrls + 1
       /\ form' = [form EXCEPT
                     !.competitorUrls =
                       IF Len(suggestions) > 0
                       THEN MergeSuggestions(@, suggestions) ELSE @,
                     !.suggestions = suggestions,
                     !.isSuggesting = FALSE,
                     !.requests = @ - 1]
  /\ UNCHANGED <<appVars, call>>

NextUrlForm ==
  \/ HandleAddCompetitor
  \/ HandleRemoveCompetitor
  \/ HandleCompetitorUrlChange
  \/ HandleUserUrlChange
  \/ DebounceFires
  \/ SuggestionsArrive

SpecUrlForm == Init /\ [][NextUrlForm]_vars

\* ------------------------------------------------------------ csvExporter

DigitChar(d) == CHOOSE c \in Digit : DigitVal(c) = d

\* The decimal digits of a natural number.
RECURSIVE IntToString(_)
IntToString(k) ==
  IF k < 10 THEN <<DigitChar(k)>>
  ELSE IntToString(k \div 10) \o <<DigitChar(k % 10)>>

\* String(n) of a finite number, kept in tenths.
NumberToString(n) ==
  LET a == IF n < 0 THEN 0 - n ELSE n
  IN  (IF n < 0 THEN <<"-">> ELSE <<>>) \o IntToString(a \div 10) \o
      (IF a % 10 = 0 THEN <<>> ELSE <<".", DigitChar(a % 10)>>)

\* String(v) of a value that is no array.
PrimitiveToString(v) ==
  CASE v.t = "str"   -> v.s
    [] v.t = "num"   -> NumberToString(v.n)
    [] v.t = "nan"   -> <<"N", "a", "N">>
    [] v.t = "inf"   -> Infinity
    [] v.t = "bool"  -> IF v.n = 1 THEN <<"t", "r", "u", "e">>
                        ELSE <<"f", "a", "l", "s", "e">>
    [] v.t = "null"  -> <<"n", "u", "l", "l">>
    [] v.t = "undef" -> <<"u", "n", "d", "e", "f", "i", "n", "e", "d">>

\* String(v); an array is its elements joined by commas, null and undefined
\* ones as nothing.
JsString(v) ==
  IF v.t = "arr"
  THEN Join([i \in 1..Len(v.a) |->
               IF v.a[i].t \in {"null", "undef"} THEN <<>>
               ELSE PrimitiveToString(v.a[i])], <<",">>)
  ELSE PrimitiveToString(v)

\* stringField.replace(/"/g, '""')
RECURSIVE DoubleQuotes(_)
DoubleQuotes(s) ==
  IF s = <<>> THEN <<>>
  ELSE (IF Head(s) = "\"" THEN <<"\"", "\"">> ELSE <<Head(s)>>) \o
       DoubleQuotes(Tail(s))

HasChar(s, c) == \E i \in 1..Len(s) : s[i] = c

\* A variant of escapeCsvField: the quotes inside the field are not doubled.
EscapeWithoutDoubling(field) ==
  IF field.t \in {"null", "undef"} THEN <<>>
  ELSE LET stringField == JsString(field)
       IN  IF \/ HasChar(stringField, ",")
              \/ HasChar(stringField, "\"")
              \/ HasChar(stringField, "\n")
           THEN <<"\"">> \o stringField \o <<"\"">>
           ELSE stringField

\* escapeCsvField(field)
escapeCsvField(field) ==
  IF field.t \in {"null", "undef"} THEN <<>>
  ELSE LET stringField == JsString(field)
       IN  IF \/ HasChar(stringField, ",")
              \/ HasChar(stringField, "\"")
              \/ HasChar(stringField, "\n")
           THEN <<"\"">> \o DoubleQuotes(stringField) \o <<"\"">>
           ELSE stringField

\* What an exporter has done when it returns: the console.warn, the alert,
\* the Blob it built (none or one) and whether the download link was
\* clicked.
Blob(type, text, json) == [type |-> type, text |-> text, json |-> json]

Warned  == [warned |-> TRUE,  alerted |-> FALSE, blob |-> <<>>,
            clicked |-> FALSE]
Alerted == [warned |-> FALSE, alerted |-> TRUE,  blob |-> <<>>,
            clicked |-> FALSE]

\* The Blob, and the click on the link where the browser knows the download
\* attribute.
Download(blob, supported) ==
  [warned |-> FALSE, alerted |-> FALSE, blob |-> <<blob>>,
   clicked |-> supported]

\* triggerCsvDownload(csvContent, fileName)
triggerCsvDownload(csvContent, supported) ==
  Download(Blob("text/csv;charset=utf-8;", csvContent, Undef), supported)

\* !data || data.length === 0
NoData(results) == results.t \in {"null", "undef"} \/ results.a = <<>>

\* analysis.competitors?.length || 0
CompetitorsLength(analysis) ==
  IF analysis.competitors.t = "arr" THEN Len(analysis.competitors.a) ELSE 0

\* Math.max(0, ...lengths)
MaxCompetitorsOf(list) ==
  LET lengths == {0} \cup {CompetitorsLength(list[i]) : i \in 1..Len(list)}
  IN  CHOOSE m \in lengths : \A n \in lengths : n <= m

BaseHeaders ==
  << <<"P", "r", "o", "d", "u", "c", "t", " ", "N", "a", "m", "e">>,
     <<"C", "u", "r", "r", "e", "n", "t", " ", "P", "r", "i", "c", "e">>,
     <<"S", "u", "g", "g", "e", "s", "t", "e", "d", " ", "P", "r", "i", "c",
       "e">>,
     <<"M", "a", "r", "k", "e", "t", " ", "S", "u", "m", "m", "a", "r", "y">>,
     <<"H", "i", "s", "t", "o", "r", "i", "c", "a", "l", " ", "P", "r", "i",
       "c", "e", " ", "A", "n", "a", "l", "y", "s", "i", "s">>,
     <<"R", "e", "a", "s", "o", "n", "i", "n", "g">> >>

RECURSIVE Flatten(_)
Flatten(seqs) ==
  IF seqs = <<>> THEN <<>> ELSE Head(seqs) \o Flatten(Tail(seqs))

\* `Competitor ${i} ` and what follows it in the four headers of a group.
CompetitorPrefix(i) ==
  <<"C", "o", "m", "p", "e", "t", "i", "t", "o", "r", " ">> \o
  IntToString(i) \o <<" ">>

\* The four headers pushed for each i of 1..maxCompetitors.
CompetitorHeaders(maxCompetitors) ==
  Flatten([i \in 1..maxCompetitors |->
             << CompetitorPrefix(i) \o <<"N", "a", "m", "e">>,
                CompetitorPrefix(i) \o <<"P", "r", "i", "c", "e">>,
                CompetitorPrefix(i) \o
                  <<"S", "t", "o", "c", "k", " ", "S", "t", "a", "t", "u",
                    "s">>,
                CompetitorPrefix(i) \o
                  <<"P", "r", "i", "c", "e", " ", "T", "r", "e", "n",
                    "d">> >>])

BaseRow(analysis) ==
  << escapeCsvField(analysis.userProduct.productName),
     escapeCsvField(analysis.userProduct.currentPrice),
     escapeCsvField(analysis.suggestedPrice),
     escapeCsvField(analysis.marketSummary),
     escapeCsvField(analysis.historicalPriceAnalysis),
     escapeCsvField(analysis.reasoning) >>

\* A variant of CompetitorRowData: a row holds its own competitors only.
CompetitorRowUnpadded(analysis, maxCompetitors) ==
  Flatten([i \in 1..CompetitorsLength(analysis) |->
             << escapeCsvField(analysis.competitors.a[i].productName),
                escapeCsvField(analysis.competitors.a[i].price),
                escapeCsvField(analysis.competitors.a[i].stockStatus),
                escapeCsvField(analysis.competitors.a[i].priceTrend) >>])

\* competitorRowData: four fields for each i below maxCompetitors, the
\* competitor's where competitors?.[i] is one, four empty strings where not.
CompetitorRowData(analysis, maxCompetitors) ==
  Flatten([i \in 1..maxCompetitors |->
             IF i <= CompetitorsLength(analysis)
             THEN << escapeCsvField(analysis.competitors.a[i].productName),
                     escapeCsvField(analysis.competitors.a[i].price),
                     escapeCsvField(analysis.competitors.a[i].stockStatus),
                     escapeCsvField(analysis.competitors.a[i].priceTrend) >>
             ELSE << <<>>, <<>>, <<>>, <<>> >>])

\* headers.join(',') and the rows, joined by newlines.
CsvContent(headers, rows) ==
  Join(<<Join(headers, <<",">>)>> \o rows, <<"\n">>)

\* exportToCsv(data, fileName)
exportToCsv(results, supported) ==
  IF NoData(results) THEN Warned
  ELSE LET maxCompetitors == MaxCompetitorsOf(results.a)
           headers == BaseHeaders \o CompetitorHeaders(maxCompetitors)
           rows == [i \in 1..Len(results.a) |->
                      Join(BaseRow(results.a[i]) \o
                           CompetitorRowData(results.a[i], maxCompetitors),
                           <<",">>)]
       IN  triggerCsvDownload(CsvContent(headers, rows), supported)

CompetitorFileHeaders ==
  << <<"A", "n", "a", "l", "y", "z", "e", "d", " ", "P", "r", "o", "d", "u",
       "c", "t">>,
     <<"C", "o", "m", "p", "e", "t", "i", "t", "o", "r", " ", "N", "a", "m",
       "e">>,
     <<"C", "o", "m", "p", "e", "t", "i", "t", "o", "r", " ", "U", "R", "L">>,
     <<"C", "u", "r", "r", "e", "n", "t", " ", "P", "r", "i", "c", "e">>,
     <<"O", "r", "i", "g", "i", "n", "a", "l", " ", "P", "r", "i", "c", "e">>,
     <<"S", "t", "o", "c", "k", " ", "S", "t", "a", "t", "u", "s">>,
     <<"P", "r", "i", "c", "e", " ", "T", "r", "e", "n", "d">> >>

\* The row exportCompetitorsToCsv pushes for one competitor of an analysis.
CompetitorRow(analysis, competitor) ==
  Join(<< escapeCsvField(analysis.userProduct.productName),
          escapeCsvField(competitor.productName),
          escapeCsvField(competitor.url),
          escapeCsvField(competitor.price),
          escapeCsvField(competitor.originalPrice),
          escapeCsvField(competitor.stockStatus),
          escapeCsvField(competitor.priceTrend) >>, <<",">>)

\* A variant of CompetitorRows: the first competitor of each analysis only.
CompetitorRowsFirstOnly(analysis) ==
  IF CompetitorsLength(analysis) > 0
  THEN <<CompetitorRow(analysis, analysis.competitors.a[1])>>
  ELSE <<>>

\* The rows pushed for one analysis: one for each of its competitors, none
\* when it has no competitor list or an empty one.
CompetitorRows(analysis) ==
  [k \in 1..CompetitorsLength(analysis) |->
     CompetitorRow(analysis, analysis.competitors.a[k])]

\* exportCompetitorsToCsv(data, fileName)
exportCompetitorsToCsv(results, supported) ==
  IF NoData(results) THEN Warned
  ELSE LET rows == Flatten([i \in 1..Len(results.a) |->
                              CompetitorRows(results.a[i])])
       IN  IF rows = <<>> THEN Alerted
           ELSE triggerCsvDownload(CsvContent(CompetitorFileHeaders, rows),
                                   supported)

PriceHistoryHeaders ==
  << <<"A", "n", "a", "l", "y", "z", "e", "d", " ", "P", "r", "o", "d", "u",
       "c", "t">>,
     <<"S", "o", "u", "r", "c", "e", " ", "P", "r", "o", "d", "u", "c", "t">>,
     <<"D", "a", "t", "e">>,
     <<"P", "r", "i", "c", "e">> >>

\* One row for each point of a historicalPrices list, none when there is no
\* list.
HistoryRows(analysis, source, historicalPrices) ==
  IF historicalPrices.t # "arr" THEN <<>>
  ELSE [p \in 1..Len(historicalPrices.a) |->
          Join(<< escapeCsvField(analysis.userProduct.productName),
                  escapeCsvField(source),
                  escapeCsvField(historicalPrices.a[p].date),
                  escapeCsvField(historicalPrices.a[p].price) >>, <<",">>)]

\* A variant of PriceHistoryRows: the subject's points only.
PriceHistoryRowsOfSubject(analysis) ==
  HistoryRows(analysis, analysis.userProduct.productName,
              analysis.userProduct.historicalPrices)

\* The rows exportPriceHistoryToCsv pushes for one analysis: the subject's
\* points, then each competitor's.
PriceHistoryRows(analysis) ==
  HistoryRows(analysis, analysis.userProduct.productName,
              analysis.userProduct.historicalPrices) \o
  Flatten([k \in 1..CompetitorsLength(analysis) |->
             HistoryRows(analysis, analysis.competitors.a[k].productName,
                         analysis.competitors.a[k].historicalPrices)])

\* exportPriceHistoryToCsv(data, fileName)
exportPriceHistoryToCsv(results, supported) ==
  IF NoData(results) THEN Warned
  ELSE LET rows == Flatten([i \in 1..Len(results.a) |->
                              PriceHistoryRows(results.a[i])])
       IN  IF rows = <<>> THEN Alerted
           ELSE triggerCsvDownload(CsvContent(PriceHistoryHeaders, rows),
                                   supported)

\* exportToJson(data, fileName); the text JSON.stringify(data, null, 2) makes
\* is kept as the value it is made of.
exportToJson(results, supported) ==
  IF results.t \in {"null", "undef"} THEN Warned
  ELSE Download(Blob("application/json;charset=utf-8;", <<>>, results),
                supported)

\* ----------------------------------------------- the exporters, when called

Point(date, price) == [date |-> Str(date), price |-> Num(price)]

ExportedCompetitor(name, url, price, original, stock, trend, history) ==
  [productName |-> name, url |-> url, price |-> price,
   originalPrice |-> original, stockStatus |-> stock, priceTrend |-> trend,
   historicalPrices |-> history]

Rival ==
  ExportedCompetitor(Str(<<"R", "i", "v", "a", "l">>), Str(<<"u", "/", "r">>),
                     Num(450), Undef, Str(<<"I", "n", " ", "S", "t", "o",
                                            "c", "k">>),
                     Str(<<"S", "t", "a", "b", "l", "e">>),
                     Arr(<<Point(<<"0", "5", "-", "0", "1">>, 460),
                           Point(<<"0", "5", "-", "0", "2">>, 450)>>))

RivalWithComma ==
  ExportedCompetitor(Str(<<"A", ",", "B">>), Str(<<"u", "/", "a", "b">>),
                     Num(125), Num(150), Str(<<"L", "o", "w">>),
                     Str(<<"D", "o", "w", "n">>), Undef)

RivalWithQuote ==
  ExportedCompetitor(Str(<<"7", "\"", " ", "x">>), Undef, Null, Undef,
                     Str(<<"O", "u", "t">>), Str(<<"U", "p">>),
                     Arr(<<Point(<<"0", "5", "-", "0", "1">>, 99)>>))

ExportedAnalysis(name, price, history, suggested, summary, analysis,
                 reasoning, competitors) ==
  [userProduct |-> [productName |-> name, currentPrice |-> price,
                    historicalPrices |-> history],
   suggestedPrice |-> suggested, marketSummary |-> summary,
   historicalPriceAnalysis |-> analysis, reasoning |-> reasoning,
   competitors |-> competitors]

\* The analyses of the results handed to the exporters: with one, three,
\* no and an empty list of competitors; with and without price histories;
\* with commas, quotes and newlines in their texts.
ExportedAnalyses ==
  << ExportedAnalysis(Str(<<"S", "h", "o", "e">>), Num(500),
                      Arr(<<Point(<<"0", "5", "-", "0", "1">>, 520)>>),
                      Num(495), Str(<<"o", "k">>), Str(<<"f", "l", "a",
                                                         "t">>),
                      Str(<<"r">>), Arr(<<Rival>>)),
     ExportedAnalysis(Str(<<"M", "u", "g", ",", " ", "b", "i", "g">>),
                      Num(125), Undef, Num(130), Str(<<"a", "\n", "b">>),
                      Null,
                      Str(<<"s", "a", "y", " ", "\"", "h", "i", "\"">>),
                      Arr(<<Rival, RivalWithComma, RivalWithQuote>>)),
     ExportedAnalysis(Str(<<"C", "a", "p">>), Num(0), Undef, Num(15),
                      Str(<<"o", "k">>), Str(<<"f", "l", "a", "t">>),
                      Str(<<"r">>), Undef),
     ExportedAnalysis(Str(<<"P", "h", "o", "n", "e">>), Num(9990),
                      Arr(<<>>), Num(9500), Str(<<"o", "k">>),
                      Str(<<"f", "l", "a", "t">>), Str(<<"r">>),
                      Arr(<<>>)) >>

\* The results: nothing at all, or up to MaxExported analyses.
ExportedData ==
  {Null, Undef} \cup
  {Arr([i \in DOMAIN c |-> ExportedAnalyses[c[i]]]) :
     c \in UNION {[1..n -> 1..Len(ExportedAnalyses)] : n \in 0..MaxExported}}

Exporters ==
  {"exportToCsv", "exportCompetitorsToCsv", "exportPriceHistoryToCsv",
   "exportToJson"}

\* An exporter is about to be called on a result, in a browser that knows
\* the download attribute of a link or in one that does not.
InitExport ==
  /\ AppInit
  /\ form = NewForm
  /\ \E fn \in Exporters, d \in ExportedData, s \in BOOLEAN :
       call = [fn |-> fn, arg |-> [data |-> d, supported |-> s],
               done |-> FALSE, ret |-> <<>>]

Export(fn, result) ==
  /\ call.fn = fn
  /\ ~call.done
  /\ call' = [call EXCEPT !.done = TRUE, !.ret = result]
  /\ UNCHANGED <<appVars, form>>

ExportToCsv ==
  Export("exportToCsv", exportToCsv(call.arg.data, call.arg.supported))

ExportCompetitorsToCsv ==
  Export("exportCompetitorsToCsv",
         exportCompetitorsToCsv(call.arg.data, call.arg.supported))

ExportPriceHistoryToCsv ==
  Export("exportPriceHistoryToCsv",
         exportPriceHistoryToCsv(call.arg.data, call.arg.supported))

ExportToJson ==
  Export("exportToJson", exportToJson(call.arg.data, call.arg.supported))

NextExport ==
  \/ ExportToCsv
  \/ ExportCompetitorsToCsv
  \/ ExportPriceHistoryToCsv
  \/ ExportToJson

SpecExport == InitExport /\ [][NextExport]_vars

\* ---- escapeCsvField on its own

FieldChars == {"a", ",", "\"", "\n"}

\* The fields escapeCsvField is called on: null, undefined, numbers, a
\* boolean, and every string of up to MaxFieldLen characters that are
\* letters, commas, quotes and newlines, and a longer one with quotes.
EscapedFields ==
  {Null, Undef, Num(450), Num(125), Num(0 - 5), Bool(TRUE),
   Str(<<"h", "e", " ", "s", "a", "i", "d", " ", "\"", "h", "i", "\"">>)} \cup
  {Str(s) : s \in UNION {[1..n -> FieldChars] : n \in 0..MaxFieldLen}}

InitEscape ==
  /\ AppInit
  /\ form = NewForm
  /\ \E f \in EscapedFields :
       call = [fn |-> "escapeCsvField", arg |-> f, done |-> FALSE,
               ret |-> <<>>]

\* escapeCsvField(field) is called.
Escape ==
  /\ call.fn = "escapeCsvField"
  /\ ~call.done
  /\ call' = [call EXCEPT !.done = TRUE, !.ret = escapeCsvField(call.arg)]
  /\ UNCHANGED <<appVars, form>>

NextEscape == Escape

SpecEscape == InitEscape /\ [][NextEscape]_vars

\* ================================================================ claims

\* The input positions of the batch whose AI call was fulfilled, and the
\* j-th of them in input order.
FulfilledPositions == {i \in 1..Len(outcome) : outcome[i] = "fulfilled"}

NthFulfilled(j) ==
  CHOOSE i \in FulfilledPositions :
    Cardinality({x \in FulfilledPositions : x < i}) = j - 1

\* What the AI returned for the item at input position i of the batch.
ReturnedFor(i) == AiAnalysis(ProductIndex(input.products[i]))

\* The batch has come back from analyzeBatchProducts with a result.
BatchReturned == input.type = "csv" /\ pc = "batch_pred"

\* C1: when analyzeBatchProducts returns, its result holds exactly the
\* analyses of the items whose AI call succeeded, in the order of their
\* input positions, one entry per success and none for a failure, whatever
\* order the calls settled in.
C1_SuccessesInInputOrder ==
  BatchReturned =>
    /\ Len(aiAnalyses) = Cardinality(FulfilledPositions)
    /\ \A j \in 1..Len(aiAnalyses) : aiAnalyses[j] = ReturnedFor(NthFulfilled(j))

\* Three items, the second failed, the calls settled out of input order.
C1_Witness ==
  /\ BatchReturned
  /\ reordered
  /\ outcome = <<"fulfilled", "rejected", "fulfilled">>
  /\ Len(aiAnalyses) = 2

\* C2: in batch mode every input item has exactly one AI call, issued when
\* the batch starts and never again, whatever its siblings do; and
\* handleAnalysis is past the join only when every call had settled.
C2_OneCallEachJoinAfterAll ==
  input.type = "csv" =>
    /\ Len(aiCalls) = Len(input.products)
    /\ \A i \in 1..Len(input.products) :
         Cardinality({c \in 1..Len(aiCalls) : aiCalls[c].index = i}) = 1
    /\ pc = "batch_ai" => Len(promises) = Len(input.products)
    /\ pc # "batch_ai" =>
         /\ Len(outcome) = Len(input.products)
         /\ \A i \in 1..Len(outcome) : outcome[i] \in {"fulfilled",
             "rejected"}

\* A call was rejected, a sibling was fulfilled after it, a third is still
\* pending: the failure cancelled nothing.
C2_Witness ==
  /\ pc = "batch_ai"
  /\ Len(promises) = 3
  /\ Len(settleOrder) = 2
  /\ promises[settleOrder[1]].state = "rejected"
  /\ promises[settleOrder[2]].state = "fulfilled"

\* A batch run has ended with every AI call failed.
AllItemsFailed ==
  /\ input.type = "csv"
  /\ pc = "idle"
  /\ Len(input.products) > 0
  /\ \A i \in 1..Len(outcome) : outcome[i] = "rejected"

\* C3: a non-empty batch whose AI calls all fail ends in status error with
\* data null and one error naming every product in input order, with no
\* prediction request made; an empty batch ends in success.
C3_AllFailedIsOneError ==
  /\ AllItemsFailed =>
       /\ status = "error"
       /\ data = NullData
       /\ ~error.isNull
       /\ error.names = [i \in 1..Len(input.products) |->
                           input.products[i].productName]
       /\ predCalls = 0
       /\ submitted = <<>>
  /\ (input.type = "csv" /\ pc = "idle" /\ input.products = <<>>) =>
       status = "success" /\ data = ResultData(<<>>)

C3_Witness == AllItemsFailed /\ Len(input.products) = 3 /\ status = "error"

\* The prediction request failed: rejected, a non-OK status, or no JSON.
PredictionFailedOutright == response.kind \in {"reject", "not_ok", "bad_json"}

\* C4: in either mode, when the AI analysis succeeded and the prediction
\* request fails, handleAnalysis ends in status success and every analysis
\* keeps the suggestedPrice the AI gave it.
C4_PredictionFailureKeepsAiPrice ==
  PredictionFailedOutright =>
    /\ status = "success"
    /\ ~data.isNull
    /\ error.isNull
    /\ Len(data.list) = Len(aiAnalyses)
    /\ \A i \in 1..Len(data.list) :
         data.list[i].suggestedPrice = aiAnalyses[i].suggestedPrice

\* A batch of two whose prediction request answered "not trained".
C4_Witness ==
  /\ input.type = "csv"
  /\ response.kind = "not_ok"
  /\ warned = "not_trained"
  /\ status = "success"
  /\ Len(data.list) = 2

\* An OK single answer whose predicted_price is missing, null, an empty or
\* non-numeric string, a boolean or an empty array.
MalformedSingleAnswer ==
  /\ input.type = "url"
  /\ response.kind = "ok"
  /\ response.isObject
  /\ response.value \in {Undef, Null, Str(<<>>), Str(<<"a", "b", "c">>),
                         Bool(TRUE), Bool(FALSE), Arr(<<>>)}

\* C5: in single mode, an OK answer with a malformed predicted_price leaves
\* the AI-derived suggestedPrice unchanged.
C5_MalformedAnswerKeepsAiPrice ==
  MalformedSingleAnswer =>
    data.list[1].suggestedPrice = aiAnalyses[1].suggestedPrice

\* The batch answer is usable: a list of finite numbers, one per payload.
UsableBatchAnswer ==
  /\ response.kind = "ok"
  /\ response.isObject
  /\ response.value.t = "arr"
  /\ Len(response.value.a) = Len(submitted)
  /\ \A i \in 1..Len(response.value.a) : response.value.a[i].t = "num"

\* C6: after a batch refinement every analysis has its prediction or none
\* has: with an unusable answer all keep the AI-derived suggestedPrice.
C6_BatchRefinementAllOrNone ==
  (input.type = "csv" /\ response.kind # "none") =>
    \/ /\ UsableBatchAnswer
       /\ \A i \in 1..Len(data.list) :
            data.list[i].suggestedPrice = MathRound(response.value.a[i].n)
    \/ /\ ~UsableBatchAnswer
       /\ \A i \in 1..Len(data.list) :
            data.list[i].suggestedPrice = aiAnalyses[i].suggestedPrice

\* The batch answer carried a list of predictions.
BatchAnswered ==
  /\ input.type = "csv"
  /\ response.kind = "ok"
  /\ response.isObject
  /\ response.value.t = "arr"

\* The product an analysis is about.
ProductOf(a) ==
  CHOOSE k \in 1..NumProducts : a.userProduct.productName = Str(ProductNames[k])

\* C7: in batch mode the payload at position i is the one of the i-th
\* successful analysis, and that analysis ends with the prediction at
\* position i (rounded) or, when there is no finite one, with its own AI
\* price: never with a prediction made for another product.
C7_PredictionsAlignedByPosition ==
  BatchAnswered =>
    \A i \in 1..Len(data.list) :
      LET k == ProductOf(data.list[i])
          preds == response.value.a
      IN  /\ k = ProductIndex(input.products[NthFulfilled(i)])
          /\ submitted[i].current_price
               = Coalesce(parseStrictNumber(FoundPrice[k]), Num(0)).n
          /\ data.list[i].suggestedPrice
               = IF i <= Len(preds) /\ preds[i].t = "num"
                 THEN MathRound(preds[i].n)
                 ELSE AiSuggested[k]

\* The first item failed and was dropped; the two behind it got the first
\* and second prediction, 450.7 and -2.5.
C7_Witness ==
  /\ BatchAnswered
  /\ outcome = <<"rejected", "fulfilled", "fulfilled">>
  /\ response.value.a = <<Num(4507), Num(0 - 25)>>
  /\ data.list[1].suggestedPrice = 4510
  /\ data.list[2].suggestedPrice = 0 - 20

\* r is the integer nearest to p (both in tenths).
NearestInteger(r, p) == r % 10 = 0 /\ r - p <= 5 /\ p - r <= 5

\* The finite number a prediction answer gives for position i, if it does.
FinitePrediction(i) ==
  IF input.type = "url"
  THEN IF i = 1 /\ response.isObject /\ response.value.t = "num"
       THEN <<response.value.n>>
       ELSE IF i = 1 /\ response.isObject /\ response.value.t = "arr"
               /\ response.value.a # <<>> /\ response.value.a[1].t = "num"
       THEN <<response.value.a[1].n>>
       ELSE <<>>
  ELSE IF response.isObject /\ response.value.t = "arr"
          /\ i <= Len(response.value.a) /\ response.value.a[i].t = "num"
       THEN <<response.value.a[i].n>> ELSE <<>>

\* C8: when the prediction answer gives a finite number p for an analysis,
\* its suggestedPrice becomes the integer nearest p (450.7 gives 451).
C8_RoundedToNearestInteger ==
  response.kind = "ok" =>
    \A i \in 1..Len(data.list) :
      FinitePrediction(i) # <<>> =>
        /\ NearestInteger(data.list[i].suggestedPrice, FinitePrediction(i)[1])
        /\ FinitePrediction(i)[1] = 4507 => data.list[i].suggestedPrice = 4510

\* A single analysis whose AI price 499.5 was replaced by round(450.7).
C8_Witness ==
  /\ input.type = "url"
  /\ response.kind = "ok"
  /\ response.value = Num(4507)
  /\ aiAnalyses[1].suggestedPrice = 4995
  /\ data.list[1].suggestedPrice = 4510

\* An analysis with its suggestedPrice blanked.
WithoutPrice(a) == [a EXCEPT !.suggestedPrice = 0]

\* C9: the refinement changes nothing but suggestedPrice: the result keeps
\* the length and order of the list the AI step returned and every other
\* field of every analysis; building the payloads changes no analysis.
C9_OnlySuggestedPriceChanges ==
  /\ pc \in {"single_pred", "batch_pred"} => analyses = aiAnalyses
  /\ response.kind # "none" =>
       /\ data.list = analyses
       /\ Len(data.list) = Len(aiAnalyses)
       /\ \A i \in 1..Len(data.list) :
            WithoutPrice(data.list[i]) = WithoutPrice(aiAnalyses[i])

\* A batch whose prices were overwritten by a longer list of predictions.
C9_Witness ==
  /\ BatchAnswered
  /\ Len(data.list) = 2
  /\ Len(response.value.a) = 3
  /\ \A i \in 1..2 :
       data.list[i].suggestedPrice # aiAnalyses[i].suggestedPrice

\* The mapper has been called on an analysis.
Mapped == call.fn = "analysisToPredictPayload" /\ call.done

\* The competitors of an analysis, none when the field is missing or null.
CompetitorsOf(a) ==
  IF a.competitors.t = "arr" THEN a.competitors.a ELSE <<>>

\* The positions of the competitors whose price parses strictly, and the
\* j-th of them.
ParseablePositions(a) ==
  {i \in 1..Len(CompetitorsOf(a)) :
     parseStrictNumber(CompetitorsOf(a)[i].price) # Null}

NthParseable(a, j) ==
  CHOOSE i \in ParseablePositions(a) :
    Cardinality({x \in ParseablePositions(a) : x < i}) = j - 1

\* The strict parse of the subject's price, 0 when it does not parse.
SubjectPrice(a) ==
  IF parseStrictNumber(a.userProduct.currentPrice) = Null THEN 0
  ELSE parseStrictNumber(a.userProduct.currentPrice).n

\* C10: the payload of an analysis has current_price the strict parse of the
\* subject's price (0 if it does not parse), competitor_prices the strictly
\* parseable competitor prices in their order, or [current_price] when there
\* is none, so never empty, and category inferCategory(productName).
C10_PayloadOfAnalysis ==
  Mapped =>
    LET a == call.arg
        p == call.ret
    IN  /\ p.current_price = SubjectPrice(a)
        /\ p.category = inferCategory(a.userProduct.productName)
        /\ Len(p.competitor_prices) >= 1
        /\ IF ParseablePositions(a) = {}
           THEN p.competitor_prices = <<p.current_price>>
           ELSE /\ Len(p.competitor_prices) = Cardinality(ParseablePositions(a))
                /\ \A j \in 1..Len(p.competitor_prices) :
                     p.competitor_prices[j]
                       = parseStrictNumber(
                           CompetitorsOf(a)[NthParseable(a, j)].price).n
        /\ (CompetitorsOf(a) = <<>>
              /\ a.userProduct.currentPrice = Str(<<"4", ",", "0", "0", "0">>)
              /\ a.userProduct.productName = Str(ProductNames[2]))
             => p = [current_price |-> 0, competitor_prices |-> <<0>>,
                     category |-> "general"]

\* No competitors and an unparseable subject price: {0, [0], "general"}.
C10_Witness ==
  /\ Mapped
  /\ call.arg.competitors = Arr(<<>>)
  /\ call.arg.userProduct.currentPrice = Str(<<"4", ",", "0", "0", "0">>)
  /\ call.arg.userProduct.productName = Str(ProductNames[2])
  /\ call.ret.competitor_prices = <<0>>

\* Two competitors, the first unparseable: the second's price alone.
C10_WitnessFiltered ==
  /\ Mapped
  /\ Len(CompetitorsOf(call.arg)) = 2
  /\ ParseablePositions(call.arg) = {2}
  /\ Len(call.ret.competitor_prices) = 1

\* The single analysis has come back from the AI collaborator, one way or
\* the other, and handleAnalysis goes on from it.
SingleAiSettled == pc = "single_ai" /\ pc' # "single_ai"

\* C11: in single mode a failed AI call ends the whole operation: the state
\* becomes error with no data and the AI call's own message, and no
\* prediction request is made; an AI call that succeeded leads to a result
\* that is a list of exactly one analysis, the one the AI call returned.
C11_SingleAiFailureIsFatal ==
  [][/\ SingleAiSettled /\ promises[1].state = "rejected" =>
          /\ status' = "error"
          /\ data' = NullData
          /\ error' = ErrorOf(promises[1].reason)
          /\ pc' = "idle"
          /\ predCalls' = 0 /\ submitted' = <<>>
     /\ SingleAiSettled /\ promises[1].state = "fulfilled" =>
          /\ pc' = "single_pred"
          /\ aiAnalyses' = <<promises[1].value[1]>>
     /\ input'.type = "url" /\ status' = "success" =>
          /\ ~data'.isNull
          /\ Len(data'.list) = 1
          /\ WithoutPrice(data'.list[1]) = WithoutPrice(aiAnalyses'[1])]_vars

\* The single AI call failed and the operation ended in the error state.
C11_Witness ==
  /\ input.type = "url"
  /\ outcome = <<"rejected">>
  /\ status = "error"
  /\ ~error.isNull
  /\ predCalls = 0

\* The single AI call succeeded and the one analysis is shown.
C11_WitnessSuccess ==
  /\ input.type = "url"
  /\ status = "success"
  /\ Len(data.list) = 1


\* ---- what a CSV text holds, read off the text line by line

\* The upload has been read and parsed, and the form has taken the outcome.
Uploaded == call.fn = "parseCsv" /\ call.done

\* The text split at its line ends, and the positions of the lines that are
\* not blank, in order: the first is the header, the others the data lines.
Layout(text) ==
  LET ls == SplitLines(text)
  IN  [lines  |-> ls,
       filled |-> SelectSeq([p \in 1..Len(ls) |-> p],
                            LAMBDA p : Trim(ls[p]) # <<>>)]

\* The names of the columns.
ColumnsOf(lay) ==
  LET c == Split(lay.lines[lay.filled[1]], ",")
  IN  [i \in 1..Len(c) |-> Trim(c[i])]

\* There are a header and a data line, and both required columns.
WellHeaded(lay) ==
  /\ Len(lay.filled) >= 2
  /\ \E i \in 1..Len(ColumnsOf(lay)) : ColumnsOf(lay)[i] = ProductNameColumn
  /\ \E i \in 1..Len(ColumnsOf(lay)) : ColumnsOf(lay)[i] = CurrentPriceColumn

\* The data lines, in file order, and the position of each in the text.
DataPositions(lay) == Tail(lay.filled)
DataLinesOf(lay) ==
  [j \in 1..(Len(lay.filled) - 1) |-> lay.lines[lay.filled[j + 1]]]

\* The trimmed value of a line under a column (each column occurs once in
\* the headers of FileTexts).
ValueUnder(cols, line, col) ==
  Trim(Split(line, ",")[CHOOSE i \in 1..Len(cols) : cols[i] = col])

\* What is wrong with a data line, if anything, in the order the checks are
\* specified: column count, name, price present, price a number, price not
\* negative.
Defect(cols, line) ==
  IF Len(Split(line, ",")) # Len(cols) THEN "columns"
  ELSE IF ValueUnder(cols, line, ProductNameColumn) = <<>> THEN "name"
  ELSE IF ValueUnder(cols, line, CurrentPriceColumn) = <<>> THEN "price-empty"
  ELSE IF StringToNumber(ValueUnder(cols, line, CurrentPriceColumn)).t # "num"
  THEN "price-invalid"
  ELSE IF StringToNumber(ValueUnder(cols, line, CurrentPriceColumn)).n < 0
  THEN "price-negative"
  ELSE "none"

\* The defect of each data line, in file order.
Defects(lay) ==
  LET cols == ColumnsOf(lay)
  IN  [j \in 1..(Len(lay.filled) - 1) |-> Defect(cols, DataLinesOf(lay)[j])]

\* The first data line with a defect, counted among the data lines.
FirstInvalid(defects) ==
  CHOOSE j \in 1..Len(defects) :
    defects[j] # "none" /\ \A k \in 1..(j - 1) : defects[k] = "none"

AllValid(defects) == \A j \in 1..Len(defects) : defects[j] = "none"

\* C12: parseCsv is all-or-nothing and fail-fast.  Of a file with a proper
\* header it returns one CsvProduct per non-blank data line, in file order,
\* when every such line is valid, and otherwise throws what is wrong with
\* the first invalid one; it never returns some of the rows.  After a failed
\* upload the form holds no products, whatever it held before.
C12_AllOrNothing ==
  Uploaded =>
    LET lay     == Layout(call.arg)
        cols    == ColumnsOf(lay)
        lines   == DataLinesOf(lay)
        defects == Defects(lay)
    IN  /\ WellHeaded(lay) /\ AllValid(defects) =>
             /\ ~call.ret.threw
             /\ Len(call.ret.value) = Len(lines)
             /\ \A j \in 1..Len(lines) :
                  call.ret.value[j].productName =
                    ValueUnder(cols, lines[j], ProductNameColumn)
        /\ WellHeaded(lay) /\ ~AllValid(defects) =>
             /\ call.ret.threw
             /\ call.ret.msg.kind = defects[FirstInvalid(defects)]
             /\ call.ret.msg.kind \in {"price-invalid", "price-negative"} =>
                  call.ret.msg.value =
                    ValueUnder(cols, lines[FirstInvalid(defects)],
                               CurrentPriceColumn)
        /\ ~WellHeaded(lay) => call.ret.threw
        /\ call.ret.threw =>
             /\ form.csvProducts = <<>>
             /\ form.fileName = ""
             /\ form.error = ParsingError(call.ret.msg)
        /\ ~call.ret.threw =>
             /\ form.csvProducts = call.ret.value
             /\ Len(form.csvProducts) = Len(lay.filled) - 1

\* A valid first row and an invalid second one: nothing is kept of the file.
C12_Witness ==
  /\ Uploaded
  /\ WellHeaded(Layout(call.arg))
  /\ Defects(Layout(call.arg)) = <<"none", "price-negative">>
  /\ call.ret.threw
  /\ call.ret.msg.kind = "price-negative"
  /\ form.csvProducts = <<>>

\* Two valid rows in a file with carriage returns: two products, in file
\* order.
C12_WitnessAll ==
  /\ Uploaded
  /\ ~call.ret.threw
  /\ "\r" \in {call.arg[i] : i \in 1..Len(call.arg)}
  /\ Len(form.csvProducts) = 2
  /\ form.csvProducts[1].productName = <<"M", "u", "g">>
  /\ form.csvProducts[2].productName = <<"S", "h", "o", "e">>

\* C13: the row number of a row-level error is the 1-based position of the
\* offending line in the text, the header being row 1, blank lines counted;
\* and a file with a data row whose comma-split field count differs from
\* the header's is rejected.
C13_RowNumberIsPhysicalPosition ==
  Uploaded /\ WellHeaded(Layout(call.arg)) =>
    LET lay     == Layout(call.arg)
        defects == Defects(lay)
    IN  /\ call.ret.threw =>
             call.ret.msg.row = DataPositions(lay)[FirstInvalid(defects)]
        /\ (\E j \in 1..Len(defects) : defects[j] = "columns") =>
             call.ret.threw

\* The second half of C13 alone: a row with the wrong number of fields makes
\* parseCsv throw.
C13_WrongColumnCountRejected ==
  Uploaded /\ WellHeaded(Layout(call.arg)) =>
    ((\E j \in 1..Len(Defects(Layout(call.arg))) :
        Defects(Layout(call.arg))[j] = "columns") => call.ret.threw)

\* The row number parseCsv does report: the position of the offending line
\* among the lines that are not blank.
C13_RowNumberAmongFilledLines ==
  Uploaded /\ WellHeaded(Layout(call.arg)) /\ call.ret.threw =>
    call.ret.msg.row = FirstInvalid(Defects(Layout(call.arg))) + 1

\* C14: every CsvProduct parseCsv returns has a trimmed, non-empty
\* productName and a currentPrice that is the finite, non-negative number
\* its line's price cell stands for; a line whose price cell is empty, is
\* no finite number or is negative yields no CsvProduct.
C14_ProductsAreValid ==
  Uploaded /\ ~call.ret.threw =>
    LET lay   == Layout(call.arg)
        cols  == ColumnsOf(lay)
        lines == DataLinesOf(lay)
    IN  /\ Len(call.ret.value) = Len(lines)
        /\ \A j \in 1..Len(lines) :
             LET name  == ValueUnder(cols, lines[j], ProductNameColumn)
                 price == ValueUnder(cols, lines[j], CurrentPriceColumn)
                 p     == call.ret.value[j]
             IN  /\ p.productName # <<>>
                 /\ p.productName = Trim(p.productName)
                 /\ p.productName = name
                 /\ price # <<>>
                 /\ NumberIsFinite(StringToNumber(price))
                 /\ StringToNumber(price).n >= 0
                 /\ p.currentPrice = StringToNumber(price).n

\* Two products returned, one of price 0 and one whose cells were padded
\* with spaces.
C14_Witness ==
  /\ Uploaded
  /\ ~call.ret.threw
  /\ Len(call.ret.value) = 2
  /\ call.ret.value[1].currentPrice = 0
  /\ call.ret.value[2] =
       [productName |-> <<"C", "a", "p">>, currentPrice |-> 70,
        userProductUrl |-> <<>>, competitorUrls |-> <<>>]

\* ---- reading CSV text back

\* Two quotes in a row stand for one.
RECURSIVE Undouble(_)
Undouble(s) ==
  IF s = <<>> THEN <<>>
  ELSE IF Len(s) >= 2 /\ s[1] = "\"" /\ s[2] = "\""
  THEN <<"\"">> \o Undouble(SubSeq(s, 3, Len(s)))
  ELSE <<Head(s)>> \o Undouble(Tail(s))

\* The inverse of the quoting rule: a field in quotes stands for what is
\* between them with doubled quotes undone, any other field for itself.
Unquote(f) ==
  IF Len(f) >= 2 /\ f[1] = "\"" /\ f[Len(f)] = "\""
  THEN Undouble(SubSeq(f, 2, Len(f) - 1))
  ELSE f

\* Reading a CSV text one character on: a comma ends a field and a newline
\* a record, except between quotes; a quote at the start of a field opens
\* it, and a quote inside stands for itself when doubled and closes the
\* field when not.
ReadChar(st, c) ==
  IF st.mode = "quoted"
  THEN IF c = "\"" THEN [st EXCEPT !.mode = "closing"]
       ELSE [st EXCEPT !.field = Append(@, c)]
  ELSE IF st.mode = "closing" /\ c = "\""
  THEN [st EXCEPT !.mode = "quoted", !.field = Append(@, c)]
  ELSE IF c = "\"" /\ st.field = <<>> /\ st.mode = "plain"
  THEN [st EXCEPT !.mode = "quoted"]
  ELSE IF c = ","
  THEN [st EXCEPT !.mode = "plain", !.field = <<>>,
                  !.rec = Append(@, st.field)]
  ELSE IF c = "\n"
  THEN [st EXCEPT !.mode = "plain", !.field = <<>>, !.rec = <<>>,
                  !.recs = Append(@, Append(st.rec, st.field))]
  ELSE [st EXCEPT !.mode = "plain", !.field = Append(@, c)]

\* The characters lo..hi of the text read, the first half and then, from
\* where that ends, the second.
RECURSIVE ReadCsv(_, _, _, _)
ReadCsv(text, lo, hi, st) ==
  IF lo > hi THEN st
  ELSE IF lo = hi THEN ReadChar(st, text[lo])
  ELSE LET half == ReadCsv(text, lo, (lo + hi) \div 2, st)
       IN  IF half.mode \in {"plain", "quoted", "closing"}
           THEN ReadCsv(text, (lo + hi) \div 2 + 1, hi, half)
           ELSE half

\* The records of a CSV text and the fields of each.
RecordsOf(text) ==
  LET st == ReadCsv(text, 1, Len(text),
                    [mode |-> "plain", field |-> <<>>, rec |-> <<>>,
                     recs |-> <<>>])
  IN  Append(st.recs, Append(st.rec, st.field))

\* What a field shows of a value: nothing of null and undefined, the string
\* form of anything else.
Shown(v) == IF v.t \in {"null", "undef"} THEN <<>> ELSE JsString(v)

\* An exporter has been called and has returned.
Exported(fn) == call.fn = fn /\ call.done

\* The text of the file an exporter built.
FileText == call.ret.blob[1].text

\* C15: in the text exportToCsv builds, the header and every data row have
\* 6 + 4 * max fields, max being the largest competitor count of the
\* result; in each row the k-th group of four holds name, price, stock
\* status and price trend of the row's k-th competitor, and the groups
\* beyond the row's own competitors are four empty fields each.
C15_UniformColumns ==
  Exported("exportToCsv") /\ ~NoData(call.arg.data) =>
    LET list == call.arg.data.a
        max  == MaxCompetitorsOf(list)
        recs == RecordsOf(FileText)
    IN  /\ Len(call.ret.blob) = 1
        /\ Len(recs) = 1 + Len(list)
        /\ \A r \in 1..Len(recs) : Len(recs[r]) = 6 + 4 * max
        /\ \A i \in 1..Len(list) : \A k \in 1..max :
             SubSeq(recs[i + 1], 6 + 4 * (k - 1) + 1, 6 + 4 * k) =
               IF k <= CompetitorsLength(list[i])
               THEN << Shown(list[i].competitors.a[k].productName),
                       Shown(list[i].competitors.a[k].price),
                       Shown(list[i].competitors.a[k].stockStatus),
                       Shown(list[i].competitors.a[k].priceTrend) >>
               ELSE << <<>>, <<>>, <<>>, <<>> >>

\* Competitor counts 1 and 3: three groups, and the first row's last eight
\* fields are empty.
C15_Witness ==
  /\ Exported("exportToCsv")
  /\ call.arg.data.t = "arr"
  /\ Len(call.arg.data.a) = 2
  /\ CompetitorsLength(call.arg.data.a[1]) = 1
  /\ CompetitorsLength(call.arg.data.a[2]) = 3
  /\ Len(RecordsOf(FileText)[1]) = 18
  /\ SubSeq(RecordsOf(FileText)[2], 11, 18) =
       << <<>>, <<>>, <<>>, <<>>, <<>>, <<>>, <<>>, <<>> >>

\* escapeCsvField has been called and has returned.
Escaped == call.fn = "escapeCsvField" /\ call.done

NeedsQuotes(s) == \E i \in 1..Len(s) : s[i] \in {",", "\"", "\n"}

\* C16: escapeCsvField returns the empty string for null and undefined; it
\* returns the string form of any other field in double quotes, with the
\* quotes inside doubled, if and only if the string form holds a comma, a
\* double quote or a newline, and unchanged otherwise; undoing the quoting
\* gives the string form back.
C16_EscapeRoundTrips ==
  Escaped =>
    /\ call.arg.t \in {"null", "undef"} => call.ret = <<>>
    /\ call.arg.t \notin {"null", "undef"} =>
         /\ NeedsQuotes(JsString(call.arg)) =>
              call.ret = <<"\"">> \o DoubleQuotes(JsString(call.arg)) \o
                         <<"\"">>
         /\ ~NeedsQuotes(JsString(call.arg)) => call.ret = JsString(call.arg)
         /\ Unquote(call.ret) = JsString(call.arg)
    /\ call.arg = Str(<<"a", ",", "b">>) =>
         call.ret = <<"\"", "a", ",", "b", "\"">>
    /\ call.arg = Str(<<"h", "e", " ", "s", "a", "i", "d", " ", "\"", "h",
                        "i", "\"">>) =>
         call.ret = <<"\"", "h", "e", " ", "s", "a", "i", "d", " ", "\"",
                      "\"", "h", "i", "\"", "\"", "\"">>

\* A string with a quote, a comma and a newline has been quoted.
C16_Witness ==
  /\ Escaped
  /\ call.arg = Str(<<"\"", ",", "\n">>)
  /\ call.ret = <<"\"", "\"", "\"", ",", "\n", "\"">>

\* C17: every exporter, called with no data or with an empty result list,
\* does nothing: it builds no file and starts no download.
C17_NoDataIsNoOp ==
  /\ call.fn \in Exporters
  /\ call.done
  /\ call.arg.data \in {Null, Undef, Arr(<<>>)}
  => /\ call.ret.blob = <<>>
     /\ ~call.ret.clicked

\* The three CSV exporters do nothing when called with no data or an empty
\* list, and exportToJson does nothing when called with null or undefined.
C17_NoOpExceptJsonOfEmptyList ==
  /\ call.fn \in Exporters
  /\ call.done
  /\ call.arg.data \in {Null, Undef, Arr(<<>>)}
  /\ ~(call.fn = "exportToJson" /\ call.arg.data = Arr(<<>>))
  => /\ call.ret.blob = <<>>
     /\ ~call.ret.clicked
     /\ call.ret.warned

\* The (analysis, competitor) pairs of a result, by analysis and then by
\* competitor.
Pairs(list) ==
  Flatten([i \in 1..Len(list) |->
             [k \in 1..CompetitorsLength(list[i]) |-> <<i, k>>]])

\* C20: exportCompetitorsToCsv writes one data row for each (analysis,
\* competitor) pair, by analysis in result order and by competitor within
\* an analysis, so as many rows as there are competitors in all, none for
\* an analysis without competitors; when a non-empty result has no
\* competitor at all, no file is built.
C20_OneRowPerCompetitor ==
  Exported("exportCompetitorsToCsv") /\ ~NoData(call.arg.data) =>
    LET list  == call.arg.data.a
        pairs == Pairs(list)
        recs  == RecordsOf(FileText)
    IN  IF pairs = <<>>
        THEN call.ret.blob = <<>> /\ ~call.ret.clicked
        ELSE /\ Len(call.ret.blob) = 1
             /\ Len(recs) = 1 + Len(pairs)
             /\ \A j \in 1..Len(pairs) :
                  LET a == list[pairs[j][1]]
                      c == a.competitors.a[pairs[j][2]]
                  IN  recs[j + 1] =
                        << Shown(a.userProduct.productName),
                           Shown(c.productName), Shown(c.url),
                           Shown(c.price), Shown(c.originalPrice),
                           Shown(c.stockStatus), Shown(c.priceTrend) >>

\* An analysis with three competitors after one without: three rows.
C20_Witness ==
  /\ Exported("exportCompetitorsToCsv")
  /\ call.arg.data.t = "arr"
  /\ Len(call.arg.data.a) = 2
  /\ CompetitorsLength(call.arg.data.a[1]) = 0
  /\ CompetitorsLength(call.arg.data.a[2]) = 3
  /\ Len(RecordsOf(FileText)) = 4

\* A result whose analyses have no competitor: no file.
C20_WitnessNoRows ==
  /\ Exported("exportCompetitorsToCsv")
  /\ call.arg.data.t = "arr"
  /\ Len(call.arg.data.a) = 2
  /\ Pairs(call.arg.data.a) = <<>>
  /\ call.ret.alerted
  /\ call.ret.blob = <<>>

\* ---- strict numerals and categories

\* An optional minus sign, digits, and optionally a point and digits, read
\* from the left: q is 0 at the start, 1 after the sign, 2 in the digits, 3
\* after the point, 4 in the digits after the point, 5 when the string is
\* no such numeral.
RECURSIVE NumeralState(_, _)
NumeralState(s, q) ==
  IF s = <<>> THEN q
  ELSE NumeralState(Tail(s),
         CASE Head(s) \in Digit /\ q \in {0, 1, 2} -> 2
           [] Head(s) \in Digit /\ q \in {3, 4}    -> 4
           [] Head(s) = "-" /\ q = 0               -> 1
           [] Head(s) = "." /\ q = 2               -> 3
           [] OTHER                                -> 5)

IsStrictNumeral(s) == NumeralState(s, 0) \in {2, 4}

\* parseStrictNumber has been called and has returned.
Parsed == call.fn = "parseStrictNumber" /\ call.done

\* C18: parseStrictNumber returns a finite number as it is; of a string
\* whose trimmed form is an optional minus sign, digits and optionally a
\* point and digits it returns the number the string stands for; of
\* anything else (the empty string, exponent notation, thousands
\* separators, trailing text, NaN, Infinity, values that are neither
\* number nor string) it returns null.
C18_StrictNumber ==
  Parsed =>
    /\ call.arg.t = "num" => call.ret = call.arg
    /\ call.arg.t = "str" /\ IsStrictNumeral(Trim(call.arg.s)) =>
         /\ call.ret.t = "num"
         /\ call.ret = StringToNumber(call.arg.s)
    /\ call.arg.t = "str" /\ ~IsStrictNumeral(Trim(call.arg.s)) =>
         call.ret = Null
    /\ call.arg.t \notin {"num", "str"} => call.ret = Null
    /\ call.arg = Str(<<"1", "2", "3">>) => call.ret = Num(1230)
    /\ call.arg = Str(<<"-", "4", ".", "5">>) => call.ret = Num(0 - 45)
    /\ call.arg = Str(<<"1", "2", "3", "a", "b", "c">>) =>
         call.ret = Null
    /\ call.arg = Str(<<"1", "e", "3">>) => call.ret = Null

\* A numeral between spaces has been parsed.
C18_Witness ==
  /\ Parsed
  /\ call.arg = Str(<<" ", "4", "2", " ">>)
  /\ call.ret = Num(420)

\* Exponent notation has been refused.
C18_WitnessNull ==
  /\ Parsed
  /\ call.arg = Str(<<"1", "e", "3">>)
  /\ call.ret = Null

\* The name holds the keyword, in any mix of upper and lower case.
Mentions(name, kw) ==
  /\ name.t = "str"
  /\ \E i \in 1..(Len(name.s) - Len(kw) + 1) :
       \A j \in 1..Len(kw) : LowerChar(name.s[i + j - 1]) = kw[j]

Footwear(name) ==
  Mentions(name, <<"s", "h", "o", "e">>) \/
  Mentions(name, <<"s", "n", "e", "a", "k", "e", "r">>)

Electronics(name) ==
  Mentions(name, <<"p", "h", "o", "n", "e">>) \/
  Mentions(name, <<"m", "o", "b", "i", "l", "e">>)

Apparel(name) ==
  Mentions(name, <<"s", "h", "i", "r", "t">>) \/
  Mentions(name, <<"t", "-", "s", "h", "i", "r", "t">>)

\* inferCategory has been called and has returned.
Categorised == call.fn = "inferCategory" /\ call.done

\* C19: inferCategory returns one of footwear, electronics, apparel and
\* general for every name, an empty or a missing one included: footwear
\* when the name mentions shoe or sneaker, else electronics when it
\* mentions phone or mobile, else apparel when it mentions shirt or
\* t-shirt, else general; upper and lower case are not told apart.
C19_CategoryByPrecedence ==
  Categorised =>
    /\ call.ret \in {"footwear", "electronics", "apparel", "general"}
    /\ call.ret = "footwear" <=> Footwear(call.arg)
    /\ call.ret = "electronics" <=>
         ~Footwear(call.arg) /\ Electronics(call.arg)
    /\ call.ret = "apparel" <=>
         ~Footwear(call.arg) /\ ~Electronics(call.arg) /\ Apparel(call.arg)
    /\ call.ret = "general" <=>
         ~Footwear(call.arg) /\ ~Electronics(call.arg) /\ ~Apparel(call.arg)

\* A name that mentions a phone before a shoe is footwear.
C19_Witness ==
  /\ Categorised
  /\ call.arg = Str(<<"i", "P", "h", "o", "n", "e", " ", "S", "N", "E", "A",
                      "K", "E", "R", "S">>)
  /\ call.ret = "footwear"

\* A missing name is general.
C19_WitnessMissing ==
  /\ Categorised
  /\ call.arg = Undef
  /\ call.ret = "general"

\* The historical points of a list of prices, none when there is no list.
PointsOf(historicalPrices) ==
  IF historicalPrices.t = "arr" THEN historicalPrices.a ELSE <<>>

\* What the price-history file is to hold for one analysis: for each point
\* of the subject and then of each competitor in order, the analyzed
\* product, the product the point belongs to, the date and the price.
HistoryOf(a) ==
  [p \in 1..Len(PointsOf(a.userProduct.historicalPrices)) |->
     << Shown(a.userProduct.productName), Shown(a.userProduct.productName),
        Shown(PointsOf(a.userProduct.historicalPrices)[p].date),
        Shown(PointsOf(a.userProduct.historicalPrices)[p].price) >>] \o
  Flatten([k \in 1..CompetitorsLength(a) |->
             [p \in 1..Len(PointsOf(a.competitors.a[k].historicalPrices)) |->
                << Shown(a.userProduct.productName),
                   Shown(a.competitors.a[k].productName),
                   Shown(PointsOf(a.competitors.a[k].historicalPrices)[p].date),
                   Shown(PointsOf(a.competitors.a[k].historicalPrices)[p].price)
                >>]])

\* C21: exportPriceHistoryToCsv writes, for each analysis in result order,
\* one row per historical point of the subject, its source being the
\* analyzed product itself, and then one row per historical point of each
\* competitor in order; there are as many data rows as historical points in
\* all, and a product without a list of historical prices adds none.
C21_OneRowPerHistoricalPoint ==
  Exported("exportPriceHistoryToCsv") /\ ~NoData(call.arg.data) =>
    LET list == call.arg.data.a
        rows == Flatten([i \in 1..Len(list) |-> HistoryOf(list[i])])
    IN  IF rows = <<>>
        THEN call.ret.blob = <<>> /\ ~call.ret.clicked
        ELSE /\ Len(call.ret.blob) = 1
             /\ RecordsOf(FileText) = <<PriceHistoryHeaders>> \o rows

\* One point of the subject and two of its competitor, then a subject
\* without a list whose competitors have two, none and one: six rows.
C21_Witness ==
  /\ Exported("exportPriceHistoryToCsv")
  /\ call.arg.data = Arr(<<ExportedAnalyses[1], ExportedAnalyses[2]>>)
  /\ Len(call.ret.blob) = 1
  /\ Len(RecordsOf(FileText)) = 7
  /\ RecordsOf(FileText)[2][2] = <<"S", "h", "o", "e">>
  /\ RecordsOf(FileText)[3][2] = <<"R", "i", "v", "a", "l">>
  /\ RecordsOf(FileText)[7][2] = <<"7", "\"", " ", "x">>

\* A header cell, trimmed, is exactly this column name.
HasColumn(cols, col) == \E i \in 1..Len(cols) : cols[i] = col

RowKinds ==
  {"columns", "name", "price-empty", "price-invalid", "price-negative"}

\* C22: parseCsv rejects a text with fewer than two non-blank lines, and a
\* header without the exact column name productName or currentPrice, naming
\* the missing column, productName when both are missing; a file with a bad
\* header is never reported for one of its rows.
C22_HeaderCheckedBeforeRows ==
  Uploaded =>
    LET lay == Layout(call.arg)
    IN  /\ Len(lay.filled) < 2 =>
             call.ret.threw /\ call.ret.msg = EmptyFile
        /\ Len(lay.filled) >= 2 =>
             LET cols == ColumnsOf(lay)
             IN  /\ ~HasColumn(cols, ProductNameColumn) =>
                      /\ call.ret.threw
                      /\ call.ret.msg = MissingColumn(ProductNameColumn)
                 /\ ( /\ HasColumn(cols, ProductNameColumn)
                      /\ ~HasColumn(cols, CurrentPriceColumn) ) =>
                      /\ call.ret.threw
                      /\ call.ret.msg = MissingColumn(CurrentPriceColumn)
        /\ call.ret.threw /\ call.ret.msg.kind \in RowKinds =>
             WellHeaded(lay)

\* A header that lacks both columns, over a row that has no name: the
\* header is what is reported, and productName is the column named.
C22_Witness ==
  /\ Uploaded
  /\ Len(Layout(call.arg).filled) = 3
  /\ ColumnsOf(Layout(call.arg)) = <<<<"n", "a", "m", "e">>,
                                     <<"p", "r", "i", "c", "e">>>>
  /\ DataLinesOf(Layout(call.arg))[1] = <<",", "5", "0">>
  /\ call.ret.threw
  /\ call.ret.msg = MissingColumn(ProductNameColumn)

\* A header whose first column differs from productName in its case only.
C22_WitnessCase ==
  /\ Uploaded
  /\ Len(Layout(call.arg).filled) = 2
  /\ ColumnsOf(Layout(call.arg))[1] =
       <<"P", "r", "o", "d", "u", "c", "t", "N", "a", "m", "e">>
  /\ call.ret.threw
  /\ call.ret.msg = MissingColumn(ProductNameColumn)

\* A header alone is an empty file.
C22_WitnessHeaderOnly ==
  /\ Uploaded
  /\ Len(Layout(call.arg).filled) = 1
  /\ call.ret.threw
  /\ call.ret.msg = EmptyFile

\* The pieces between the semicolons of a cell, each trimmed, the empty ones
\* left out.
UrlPieces(cell) ==
  LET parts == Split(cell, ";")
  IN  SelectSeq([i \in 1..Len(parts) |-> Trim(parts[i])],
                LAMBDA u : Len(u) > 0)

\* C23: in every CsvProduct parseCsv returns, competitorUrls holds the
\* pieces between the semicolons of the row's competitorUrls cell, trimmed,
\* in their order and none of them empty; it is the empty list when the
\* column is absent or the cell is empty, and userProductUrl is the empty
\* string when that column is absent.
C23_CompetitorUrlsArePieces ==
  Uploaded /\ ~call.ret.threw =>
    LET lay   == Layout(call.arg)
        cols  == ColumnsOf(lay)
        lines == DataLinesOf(lay)
    IN  \A j \in 1..Len(call.ret.value) :
          /\ call.ret.value[j].competitorUrls =
               IF HasColumn(cols, CompetitorUrlsColumn)
               THEN UrlPieces(ValueUnder(cols, lines[j], CompetitorUrlsColumn))
               ELSE <<>>
          /\ \A u \in 1..Len(call.ret.value[j].competitorUrls) :
               call.ret.value[j].competitorUrls[u] # <<>>
          /\ ~HasColumn(cols, UserProductUrlColumn) =>
               call.ret.value[j].userProductUrl = <<>>

\* A cell of four pieces, one of them blank, and then an empty cell.
C23_Witness ==
  /\ Uploaded
  /\ ~call.ret.threw
  /\ Len(call.ret.value) = 2
  /\ HasColumn(ColumnsOf(Layout(call.arg)), CompetitorUrlsColumn)
  /\ call.ret.value[1].competitorUrls = <<<<"a">>, <<"b">>, <<"c">>>>
  /\ call.ret.value[2].competitorUrls = <<>>
  /\ call.ret.value[2].productName = <<"M", "u", "g">>
  /\ call.ret.value[1].userProductUrl = <<>>

\* A file without the competitorUrls column: no competitor of any product.
C23_WitnessAbsent ==
  /\ Uploaded
  /\ ~call.ret.threw
  /\ Len(call.ret.value) = 2
  /\ ~HasColumn(ColumnsOf(Layout(call.arg)), CompetitorUrlsColumn)
  /\ call.ret.value[1].competitorUrls = <<>>
  /\ call.ret.value[2].userProductUrl = <<>>

\* C24: status, data and error are consistent in every state: a success has
\* a result list and no error, an error has a message and no data, and
\* while loading or idle there is neither.
C24_StateIsConsistent ==
  /\ status \in {"idle", "loading", "success", "error"}
  /\ status = "success" => ~data.isNull /\ error.isNull
  /\ status = "error" => data.isNull /\ ~error.isNull
  /\ status \in {"loading", "idle"} => data.isNull /\ error.isNull

\* Every product of a batch has failed: an error and no data.
C24_Witness ==
  /\ status = "error"
  /\ input.type = "csv"
  /\ Len(error.names) = 2
  /\ data.isNull
  /\ ~error.isNull

\* A batch of two has succeeded: a list of two and no error.
C24_WitnessSuccess ==
  /\ status = "success"
  /\ ~data.isNull
  /\ Len(data.list) = 2
  /\ error.isNull

\* An analysis has started and none of its calls has settled.
C24_WitnessLoading ==
  /\ status = "loading"
  /\ Len(promises) = 2
  /\ \A i \in 1..Len(promises) : promises[i].state = "pending"
  /\ data.isNull
  /\ error.isNull

\* An analysis is under way: handleAnalysis is at one of its awaits.
InFlight == pc # "idle"

Done == status \in {"success", "error"}

\* C25: when the calls to the AI and to the prediction service settle, every
\* started analysis leaves loading for success or error; and the
\* application is loading only while handleAnalysis is at one of its
\* awaits, so it is never left loading once all have settled.
C25_LoadingEnds ==
  /\ (status = "loading") ~> Done
  /\ [](status = "loading" <=> InFlight)

\* A single analysis whose AI call failed has ended in the error state.
C25_Witness ==
  /\ status = "error"
  /\ input.type = "url"
  /\ outcome = <<"rejected">>
  /\ pc = "idle"

\* A batch whose prediction request was refused has ended in success.
C25_WitnessSuccess ==
  /\ status = "success"
  /\ input.type = "csv"
  /\ predCalls = 1
  /\ response.kind # "none"
  /\ warned # "none"
  /\ pc = "idle"

\* The names of the products of the batch that was submitted.
SubmittedNames == {input.products[j].productName : j \in 1..Len(input.products)}

\* C26: at most one analysis is in flight.  While status is loading no step
\* starts another handleAnalysis: the input and the calls issued for it stay
\* as they are until the analysis ends; and the result or the error shown
\* at its end is that of the analysis that was started last.
C26_OneAnalysisInFlight ==
  [][/\ status = "loading" =>
          /\ input' = input
          /\ aiCalls' = aiCalls
          /\ InFlight
          /\ status' = "loading" => InFlight'
     /\ status = "loading" /\ status' = "success" =>
          /\ Len(data'.list) = Len(aiAnalyses')
          /\ \A i \in 1..Len(data'.list) :
               WithoutPrice(data'.list[i]) = WithoutPrice(aiAnalyses'[i])
          /\ input.type = "csv" =>
               \A i \in 1..Len(data'.list) :
                 data'.list[i].userProduct.productName.s \in SubmittedNames
     /\ status = "loading" /\ status' = "error" /\ input.type = "csv" =>
          /\ error'.names = [j \in 1..Len(input.products) |->
                               input.products[j].productName]
     /\ status # "loading" /\ status' = "loading" => ~InFlight]_vars

\* A batch of two is in flight, one of its calls settled and one pending.
C26_Witness ==
  /\ status = "loading"
  /\ pc = "batch_ai"
  /\ Len(promises) = 2
  /\ Len(settleOrder) = 1
  /\ Len(input.products) = 2

\* What parseCsv makes of the file the file input holds.
LatestParse == parseCsv(form.file.text)

\* C27: after any file selections and read completions, in any order, the
\* form's csvProducts is the parse result of the file selected last, or
\* empty if that file failed; and whenever csvProducts is not empty the
\* fileName shown is the name of the file the products were parsed from.
\* It is stated here of the states in which no read is under way.
C27_ProductsOfLatestFile ==
  form.file # NoFile /\ form.reads = <<>> =>
    /\ form.csvProducts \in
         {<<>>} \cup (IF LatestParse.threw THEN {} ELSE {LatestParse.value})
    /\ form.csvProducts # <<>> =>
         /\ form.fileName = form.file.name
         /\ \E f \in Files :
              /\ f.name = form.fileName
              /\ ~parseCsv(f.text).threw
              /\ parseCsv(f.text).value = form.csvProducts

\* C28: isSuggesting is true whenever a request for suggestions is under
\* way, also when several overlap; it is false only when none is.
C28_SuggestingWhileRequested ==
  form.requests > 0 => form.isSuggesting

\* C29: whatever the user adds, removes and edits and whatever suggestions
\* are merged, the list of competitor URLs has at least one entry.
C29_AtLeastOneCompetitorUrl ==
  Len(form.competitorUrls) >= 1

\* The user has removed all fields but one, and its button is disabled.
C29_Witness ==
  /\ Len(form.competitorUrls) = 1
  /\ ~CanRemove(form.competitorUrls)

\* A merge into a list of one blank field has left two fields.
C29_WitnessMerged ==
  /\ form.suggestions = << <<"x">> >>
  /\ form.competitorUrls = << <<"x">>, <<>> >>

\* The entries of a list that are not empty.
NonEmpty(urls) == SelectSeq(urls, LAMBDA u : Len(u) > 0)

\* No entry occurs twice.
Distinct(urls) == \A i, j \in 1..Len(urls) : urls[i] = urls[j] => i = j

\* C30: a merge of suggestions keeps every non-empty competitor URL the
\* user has entered, in order and ahead of the added ones, and the merged
\* list holds no non-empty URL twice: a suggestion equal to an entry or to
\* another suggestion is not added again.  It is stated here of the merges
\* into a list in which the user has entered no URL twice.
C30_MergeKeepsAndDeduplicates ==
  [][( /\ form'.requests < form.requests
       /\ Len(form'.suggestions) > 0
       /\ Distinct(NonEmpty(form.competitorUrls)) ) =>
       LET kept   == NonEmpty(form.competitorUrls)
           merged == NonEmpty(form'.competitorUrls)
       IN  /\ Len(merged) >= Len(kept)
           /\ SubSeq(merged, 1, Len(kept)) = kept
           /\ Distinct(merged)]_vars

====
